---- MODULE Spec2Model ----
(***************************************************************************)
(* SMM assistant-log analytics: CSV ingestion (parseCSV), the aggregation  *)
(* functions of services/dataProcessing (src/unnamed/part_001), the upload *)
(* handler of App.tsx and the summarization call of geminiService.ts.      *)
(*                                                                         *)
(* A JavaScript string is modelled as the sequence of its UTF-16 code      *)
(* units (natural numbers), so that trim, split, includes, toLowerCase and *)
(* parseInt are computed, not assumed.  The empty string is << >>.         *)
(***************************************************************************)
EXTENDS Integers, Sequences, FiniteSets, TLC

(***************************************************************************)
(* Tables of the source, as code-unit sequences.                           *)
(***************************************************************************)

\* part_001:4-16  localized header -> canonical field
HEADER_MAPPING ==
  <<
    <<<<38382, 39064, 73, 68>>, "questionId">>,  \* 问题ID
    <<<<38382, 39064, 20869, 23481>>, "content">>,  \* 问题内容
    <<<<25552, 38382, 26102, 38388>>, "time">>,  \* 提问时间
    <<<<26469, 28304>>, "source">>,  \* 来源
    <<<<29992, 25143, 73, 68>>, "userId">>,  \* 用户ID
    <<<<20844, 21496, 21517>>, "company">>,  \* 公司名
    <<<<29992, 25143, 22995, 21517>>, "userName">>,  \* 用户姓名
    <<<<29992, 25143, 26165, 31216>>, "nickname">>,  \* 用户昵称
    <<<<37038, 31665>>, "email">>,  \* 邮箱
    <<<<21453, 39304, 29366, 24577>>, "feedbackStatus">>,  \* 反馈状态
    <<<<21453, 39304, 20869, 23481>>, "feedbackContent">>  \* 反馈内容
  >>

\* part_001:44  keywords of isInternalUser
InternalKeywords ==
  <<
    <<115, 109, 109>>,  \* smm
    <<19978, 28023, 26377, 33394, 32593>>  \* 上海有色网
  >>

\* part_001:104-111  intent labels in declaration order
IntentLabels ==
  <<
    <<38386, 32842, 47, 38382, 20505>>,  \* 闲聊/问候
    <<34892, 24773, 47, 20215, 26684>>,  \* 行情/价格
    <<36235, 21183, 47, 39044, 27979>>,  \* 趋势/预测
    <<25968, 25454, 47, 24211, 23384>>,  \* 数据/库存
    <<30693, 35782, 47, 30334, 31185>>,  \* 知识/百科
    <<20854, 20182>>  \* 其他
  >>

\* part_001:105-109  alternatives of each intent pattern (flag i), in label order
IntentPatterns ==
  <<
    \* 闲聊/问候
    <<
      <<20320, 22909>>,  \* 你好
      <<26089, 19978, 22909>>,  \* 早上好
      <<26202, 19978, 22909>>,  \* 晚上好
      <<35874, 35874>>,  \* 谢谢
      <<24863, 35874>>,  \* 感谢
      <<20877, 35265>>,  \* 再见
      <<104, 101, 108, 108, 111>>,  \* hello
      <<104, 105>>,  \* hi
      <<21704, 21704>>,  \* 哈哈
      <<29275>>,  \* 牛
      <<21385, 23475>>,  \* 厉害
      <<26234, 38556>>,  \* 智障
      <<31528, 34507>>,  \* 笨蛋
      <<27979, 35797>>,  \* 测试
      <<35841>>,  \* 谁
      <<24110, 21161>>  \* 帮助
    >>,
    \* 行情/价格
    <<
      <<20215, 26684>>,  \* 价格
      <<22810, 23569, 38065>>,  \* 多少钱
      <<25253, 20215>>,  \* 报价
      <<21319, 36148, 27700>>,  \* 升贴水
      <<20215>>,  \* 价
      <<32467, 31639>>,  \* 结算
      <<22810, 23569>>,  \* 多少
      <<38065>>,  \* 钱
      <<33457, 36153>>,  \* 花费
      <<34892, 24773>>  \* 行情
    >>,
    \* 趋势/预测
    <<
      <<36208, 21183>>,  \* 走势
      <<28072>>,  \* 涨
      <<36300>>,  \* 跌
      <<39044, 27979>>,  \* 预测
      <<21518, 24066>>,  \* 后市
      <<30475, 27861>>,  \* 看法
      <<20998, 26512>>,  \* 分析
      <<23637, 26395>>,  \* 展望
      <<36235, 21183>>,  \* 趋势
      <<21160, 21521>>  \* 动向
    >>,
    \* 数据/库存
    <<
      <<24211, 23384>>,  \* 库存
      <<20179, 21333>>,  \* 仓单
      <<20135, 37327>>,  \* 产量
      <<20135, 33021>>,  \* 产能
      <<36827, 20986, 21475>>,  \* 进出口
      <<34920>>,  \* 表
      <<25968, 25454>>,  \* 数据
      <<22270>>,  \* 图
      <<25490, 20135>>,  \* 排产
      <<24320, 24037, 29575>>,  \* 开工率
      <<38144, 37327>>,  \* 销量
      <<24179, 34913, 34920>>  \* 平衡表
    >>,
    \* 知识/百科
    <<
      <<26159, 20160, 20040>>,  \* 是什么
      <<23450, 20041>>,  \* 定义
      <<26631, 20934>>,  \* 标准
      <<24037, 33402>>,  \* 工艺
      <<20171, 32461>>,  \* 介绍
      <<29260, 21495>>,  \* 牌号
      <<21306, 21035>>,  \* 区别
      <<21547, 20041>>,  \* 含义
      <<31185, 26222>>  \* 科普
    >>
  >>

\* part_001:134-144  metals table of getMetalDistribution
Metals ==
  <<
    <<38108>>,  \* 铜
    <<38109>>,  \* 铝
    <<38156>>,  \* 锌
    <<38085>>,  \* 铅
    <<38221>>,  \* 镍
    <<38177>>,  \* 锡
    <<38146>>,  \* 锂
    <<38068>>,  \* 钴
    <<19981, 38152, 38050>>,  \* 不锈钢
    <<37329>>,  \* 金
    <<38134>>,  \* 银
    <<31232, 22303>>,  \* 稀土
    <<38056>>,  \* 钨
    <<38076>>,  \* 钼
    <<30789>>,  \* 硅
    <<38209>>,  \* 镁
    <<38192>>,  \* 锰
    <<38043>>,  \* 钛
    <<38124>>,  \* 铬
    <<38111>>,  \* 铟
    <<38227>>,  \* 镓
    <<38167>>,  \* 锗
    <<38140>>,  \* 铼
    <<38034>>,  \* 钒
    <<38150>>,  \* 锆
    <<38122>>,  \* 铪
    <<38077>>,  \* 钽
    <<38092>>,  \* 铌
    <<38082>>,  \* 铂
    <<38063>>,  \* 钯
    <<38097>>,  \* 铑
    <<38129>>,  \* 铱
    <<38028>>,  \* 钌
    <<38151>>,  \* 锇
    <<30899, 37240, 38146>>,  \* 碳酸锂
    <<27682, 27687, 21270, 38146>>,  \* 氢氧化锂
    <<30967, 37240, 38081, 38146>>,  \* 磷酸铁锂
    <<20845, 27679, 30967, 37240, 38146>>,  \* 六氟磷酸锂
    <<30005, 35299, 28082>>,  \* 电解液
    <<19977, 20803>>,  \* 三元
    <<20809, 20239>>,  \* 光伏
    <<22810, 26230, 30789>>,  \* 多晶硅
    <<30789, 29255>>,  \* 硅片
    <<30005, 27744>>,  \* 电池
    <<32452, 20214>>,  \* 组件
    <<69, 86, 65>>,  \* EVA
    <<80, 79, 69>>,  \* POE
    <<24223, 38050>>,  \* 废钢
    <<24223, 38108>>,  \* 废铜
    <<24223, 38109>>,  \* 废铝
    <<30707, 27833, 28966>>,  \* 石油焦
    <<38451, 26497>>,  \* 阳极
    <<40657, 31881>>,  \* 黑粉
    <<30899, 37240, 37231>>,  \* 碳酸酯
    <<27687, 21270, 38109>>  \* 氧化铝
  >>

\* part_001:165-174  keywords table of getTopKeywords
Keywords ==
  <<
    <<20215, 26684>>,  \* 价格
    <<24211, 23384>>,  \* 库存
    <<36208, 21183>>,  \* 走势
    <<28072>>,  \* 涨
    <<36300>>,  \* 跌
    <<39044, 27979>>,  \* 预测
    <<32467, 31639>>,  \* 结算
    <<21152, 24037, 36153>>,  \* 加工费
    <<21319, 36148, 27700>>,  \* 升贴水
    <<29616, 36135>>,  \* 现货
    <<26399, 36135>>,  \* 期货
    <<20135, 37327>>,  \* 产量
    <<28040, 36153>>,  \* 消费
    <<24223>>,  \* 废
    <<20877, 29983>>,  \* 再生
    <<26376, 24230>>,  \* 月度
    <<24180, 24230>>,  \* 年度
    <<25104, 26412>>,  \* 成本
    <<21033, 28070>>,  \* 利润
    <<20379, 38656>>,  \* 供需
    <<20135, 33021>>,  \* 产能
    <<24320, 24037, 29575>>,  \* 开工率
    <<25253, 20215>>,  \* 报价
    <<22343, 20215>>,  \* 均价
    <<25351, 25968>>,  \* 指数
    <<36827, 21475>>,  \* 进口
    <<20986, 21475>>,  \* 出口
    <<25919, 31574>>,  \* 政策
    <<23439, 35266>>,  \* 宏观
    <<32654, 32852, 20648>>,  \* 美联储
    <<38477, 24687>>,  \* 降息
    <<27719, 29575>>,  \* 汇率
    <<34892, 24773>>,  \* 行情
    <<20998, 26512>>,  \* 分析
    <<25968, 25454>>,  \* 数据
    <<25253, 34920>>,  \* 报表
    <<26085, 25253>>,  \* 日报
    <<21608, 25253>>,  \* 周报
    <<22810, 23569, 38065>>,  \* 多少钱
    <<76, 77, 69>>,  \* LME
    <<83, 72, 70, 69>>,  \* SHFE
    <<38271, 27743>>,  \* 长江
    <<83, 77, 77>>,  \* SMM
    <<25490, 20135>>,  \* 排产
    <<38144, 37327>>  \* 销量
  >>

\* part_001:195: 上海有色网 (SMM)
INTERNAL_LABEL == <<19978, 28023, 26377, 33394, 32593, 32, 40, 83, 77, 77, 41>>

\* part_001:230: 内部员工
LabelInternal == <<20869, 37096, 21592, 24037>>

\* part_001:231: 外部客户
LabelExternal == <<22806, 37096, 23458, 25143>>

\* part_001:232: 未知
LabelUnknownUser == <<26410, 30693>>

\* part_001:239: Unknown
LabelUnknownSource == <<85, 110, 107, 110, 111, 119, 110>>

\* part_001:287: N/A
LabelNA == <<78, 47, 65>>

\* names every object literal {} inherits from Object.prototype as functions
ObjectPrototypeFunctions ==
  <<
    <<99, 111, 110, 115, 116, 114, 117, 99, 116, 111, 114>>,  \* constructor
    <<95, 95, 100, 101, 102, 105, 110, 101, 71, 101, 116, 116, 101, 114, 95, 95>>,  \* __defineGetter__
    <<95, 95, 100, 101, 102, 105, 110, 101, 83, 101, 116, 116, 101, 114, 95, 95>>,  \* __defineSetter__
    <<104, 97, 115, 79, 119, 110, 80, 114, 111, 112, 101, 114, 116, 121>>,  \* hasOwnProperty
    <<95, 95, 108, 111, 111, 107, 117, 112, 71, 101, 116, 116, 101, 114, 95, 95>>,  \* __lookupGetter__
    <<95, 95, 108, 111, 111, 107, 117, 112, 83, 101, 116, 116, 101, 114, 95, 95>>,  \* __lookupSetter__
    <<105, 115, 80, 114, 111, 116, 111, 116, 121, 112, 101, 79, 102>>,  \* isPrototypeOf
    <<112, 114, 111, 112, 101, 114, 116, 121, 73, 115, 69, 110, 117, 109, 101, 114, 97, 98, 108, 101>>,  \* propertyIsEnumerable
    <<116, 111, 83, 116, 114, 105, 110, 103>>,  \* toString
    <<118, 97, 108, 117, 101, 79, 102>>,  \* valueOf
    <<116, 111, 76, 111, 99, 97, 108, 101, 83, 116, 114, 105, 110, 103>>  \* toLocaleString
  >>

\* the accessor property every object literal inherits: __proto__
ProtoAccessor == <<95, 95, 112, 114, 111, 116, 111, 95, 95>>

\* geminiService.ts:15: <p class='text-red-500'>API Key missing. Please configure environment variables.</p>
KeyMissingMarkup == <<60, 112, 32, 99, 108, 97, 115, 115, 61, 39, 116, 101, 120, 116, 45, 114, 101, 100, 45, 53, 48, 48, 39, 62, 65, 80, 73, 32, 75, 101, 121, 32, 109, 105, 115, 115, 105, 110, 103, 46, 32, 80, 108, 101, 97, 115, 101, 32, 99, 111, 110, 102, 105, 103, 117, 114, 101, 32, 101, 110, 118, 105, 114, 111, 110, 109, 101, 110, 116, 32, 118, 97, 114, 105, 97, 98, 108, 101, 115, 46, 60, 47, 112, 62>>

\* geminiService.ts:64: <p class='text-red-500'>生成 AI 分析时出错，请检查控制台。</p>
ApiErrorMarkup == <<60, 112, 32, 99, 108, 97, 115, 115, 61, 39, 116, 101, 120, 116, 45, 114, 101, 100, 45, 53, 48, 48, 39, 62, 29983, 25104, 32, 65, 73, 32, 20998, 26512, 26102, 20986, 38169, 65292, 35831, 26816, 26597, 25511, 21046, 21488, 12290, 60, 47, 112, 62>>

\* App.tsx:79: <p>分析失败，请重试。</p>
FailedMarkup == <<60, 112, 62, 20998, 26512, 22833, 36133, 65292, 35831, 37325, 35797, 12290, 60, 47, 112, 62>>

(***************************************************************************)
(* JavaScript string primitives.                                           *)
(***************************************************************************)

\* A sequence given by a function constructor, as an explicit tuple (the
\* same value, its elements evaluated once).
array(f) == SubSeq(f, 1, Len(f))

SPACE == 32
COLON == 58

\* ECMAScript WhiteSpace and LineTerminator code units: what trim() strips
\* and what parseInt skips at the start.
WhiteSpaceUnits ==
  {9, 10, 11, 12, 13, 32, 160, 5760, 8232, 8233, 8239, 8287, 12288, 65279}
    \cup (8192..8202)

\* String.prototype.trim
trim(s) ==
  LET keep == {i \in 1..Len(s) : s[i] \notin WhiteSpaceUnits}
  IN  IF keep = {} THEN << >>
      ELSE LET lo == CHOOSE i \in keep : \A j \in keep : i <= j
               hi == CHOOSE i \in keep : \A j \in keep : j <= i
           IN  SubSeq(s, lo, hi)

(***************************************************************************)
(* String.prototype.toLowerCase: the lower-case conversion of the Unicode  *)
(* Character Database applied to the code points of the string, both       *)
(* special forms of the root locale included.  The tables are those of     *)
(* Unicode 17.0 (ICU 78), the data of the engine the program runs on; an   *)
(* engine with other Unicode data differs on the code points that were     *)
(* added or reclassified since.  No mapping yields a code unit of the      *)
(* keywords of isInternalUser other than from the capital of the same      *)
(* letter, so the rule does not depend on the version.                     *)
(***************************************************************************)

\* Simple lower-case mappings of the Unicode Character Database, as runs
\* <<first, last, step, offset>>: every step-th code point from first to
\* last maps to itself plus offset.  U+0130 and U+03A3 are not listed: they
\* are the two code points with a special lower-case form.
LowerCaseMappings ==
  <<<<65, 90, 1, 32>>, <<192, 214, 1, 32>>, <<216, 222, 1, 32>>,
    <<256, 302, 2, 1>>, <<306, 310, 2, 1>>, <<313, 327, 2, 1>>,
    <<330, 374, 2, 1>>, <<376, 376, 1, -121>>, <<377, 381, 2, 1>>,
    <<385, 385, 1, 210>>, <<386, 388, 2, 1>>, <<390, 390, 1, 206>>,
    <<391, 391, 1, 1>>, <<393, 394, 1, 205>>, <<395, 395, 1, 1>>,
    <<398, 398, 1, 79>>, <<399, 399, 1, 202>>, <<400, 400, 1, 203>>,
    <<401, 401, 1, 1>>, <<403, 403, 1, 205>>, <<404, 404, 1, 207>>,
    <<406, 406, 1, 211>>, <<407, 407, 1, 209>>, <<408, 408, 1, 1>>,
    <<412, 412, 1, 211>>, <<413, 413, 1, 213>>, <<415, 415, 1, 214>>,
    <<416, 420, 2, 1>>, <<422, 422, 1, 218>>, <<423, 423, 1, 1>>,
    <<425, 425, 1, 218>>, <<428, 428, 1, 1>>, <<430, 430, 1, 218>>,
    <<431, 431, 1, 1>>, <<433, 434, 1, 217>>, <<435, 437, 2, 1>>,
    <<439, 439, 1, 219>>, <<440, 440, 1, 1>>, <<444, 444, 1, 1>>,
    <<452, 452, 1, 2>>, <<453, 453, 1, 1>>, <<455, 455, 1, 2>>,
    <<456, 456, 1, 1>>, <<458, 458, 1, 2>>, <<459, 475, 2, 1>>,
    <<478, 494, 2, 1>>, <<497, 497, 1, 2>>, <<498, 500, 2, 1>>,
    <<502, 502, 1, -97>>, <<503, 503, 1, -56>>, <<504, 542, 2, 1>>,
    <<544, 544, 1, -130>>, <<546, 562, 2, 1>>, <<570, 570, 1, 10795>>,
    <<571, 571, 1, 1>>, <<573, 573, 1, -163>>, <<574, 574, 1, 10792>>,
    <<577, 577, 1, 1>>, <<579, 579, 1, -195>>, <<580, 580, 1, 69>>,
    <<581, 581, 1, 71>>, <<582, 590, 2, 1>>, <<880, 882, 2, 1>>,
    <<886, 886, 1, 1>>, <<895, 895, 1, 116>>, <<902, 902, 1, 38>>,
    <<904, 906, 1, 37>>, <<908, 908, 1, 64>>, <<910, 911, 1, 63>>,
    <<913, 929, 1, 32>>, <<932, 939, 1, 32>>, <<975, 975, 1, 8>>,
    <<984, 1006, 2, 1>>, <<1012, 1012, 1, -60>>, <<1015, 1015, 1, 1>>,
    <<1017, 1017, 1, -7>>, <<1018, 1018, 1, 1>>, <<1021, 1023, 1, -130>>,
    <<1024, 1039, 1, 80>>, <<1040, 1071, 1, 32>>, <<1120, 1152, 2, 1>>,
    <<1162, 1214, 2, 1>>, <<1216, 1216, 1, 15>>, <<1217, 1229, 2, 1>>,
    <<1232, 1326, 2, 1>>, <<1329, 1366, 1, 48>>, <<4256, 4293, 1, 7264>>,
    <<4295, 4295, 1, 7264>>, <<4301, 4301, 1, 7264>>,
    <<5024, 5103, 1, 38864>>, <<5104, 5109, 1, 8>>, <<7305, 7305, 1, 1>>,
    <<7312, 7354, 1, -3008>>, <<7357, 7359, 1, -3008>>, <<7680, 7828, 2, 1>>,
    <<7838, 7838, 1, -7615>>, <<7840, 7934, 2, 1>>, <<7944, 7951, 1, -8>>,
    <<7960, 7965, 1, -8>>, <<7976, 7983, 1, -8>>, <<7992, 7999, 1, -8>>,
    <<8008, 8013, 1, -8>>, <<8025, 8031, 2, -8>>, <<8040, 8047, 1, -8>>,
    <<8072, 8079, 1, -8>>, <<8088, 8095, 1, -8>>, <<8104, 8111, 1, -8>>,
    <<8120, 8121, 1, -8>>, <<8122, 8123, 1, -74>>, <<8124, 8124, 1, -9>>,
    <<8136, 8139, 1, -86>>, <<8140, 8140, 1, -9>>, <<8152, 8153, 1, -8>>,
    <<8154, 8155, 1, -100>>, <<8168, 8169, 1, -8>>, <<8170, 8171, 1, -112>>,
    <<8172, 8172, 1, -7>>, <<8184, 8185, 1, -128>>, <<8186, 8187, 1, -126>>,
    <<8188, 8188, 1, -9>>, <<8486, 8486, 1, -7517>>,
    <<8490, 8490, 1, -8383>>, <<8491, 8491, 1, -8262>>,
    <<8498, 8498, 1, 28>>, <<8544, 8559, 1, 16>>, <<8579, 8579, 1, 1>>,
    <<9398, 9423, 1, 26>>, <<11264, 11311, 1, 48>>, <<11360, 11360, 1, 1>>,
    <<11362, 11362, 1, -10743>>, <<11363, 11363, 1, -3814>>,
    <<11364, 11364, 1, -10727>>, <<11367, 11371, 2, 1>>,
    <<11373, 11373, 1, -10780>>, <<11374, 11374, 1, -10749>>,
    <<11375, 11375, 1, -10783>>, <<11376, 11376, 1, -10782>>,
    <<11378, 11378, 1, 1>>, <<11381, 11381, 1, 1>>,
    <<11390, 11391, 1, -10815>>, <<11392, 11490, 2, 1>>,
    <<11499, 11501, 2, 1>>, <<11506, 11506, 1, 1>>, <<42560, 42604, 2, 1>>,
    <<42624, 42650, 2, 1>>, <<42786, 42798, 2, 1>>, <<42802, 42862, 2, 1>>,
    <<42873, 42875, 2, 1>>, <<42877, 42877, 1, -35332>>,
    <<42878, 42886, 2, 1>>, <<42891, 42891, 1, 1>>,
    <<42893, 42893, 1, -42280>>, <<42896, 42898, 2, 1>>,
    <<42902, 42920, 2, 1>>, <<42922, 42922, 1, -42308>>,
    <<42923, 42923, 1, -42319>>, <<42924, 42924, 1, -42315>>,
    <<42925, 42925, 1, -42305>>, <<42926, 42926, 1, -42308>>,
    <<42928, 42928, 1, -42258>>, <<42929, 42929, 1, -42282>>,
    <<42930, 42930, 1, -42261>>, <<42931, 42931, 1, 928>>,
    <<42932, 42946, 2, 1>>, <<42948, 42948, 1, -48>>,
    <<42949, 42949, 1, -42307>>, <<42950, 42950, 1, -35384>>,
    <<42951, 42953, 2, 1>>, <<42955, 42955, 1, -42343>>,
    <<42956, 42970, 2, 1>>, <<42972, 42972, 1, -42561>>,
    <<42997, 42997, 1, 1>>, <<65313, 65338, 1, 32>>, <<66560, 66599, 1, 40>>,
    <<66736, 66771, 1, 40>>, <<66928, 66964, 2, 39>>,
    <<66929, 66937, 2, 39>>, <<66941, 66953, 2, 39>>,
    <<66957, 66961, 2, 39>>, <<66965, 66965, 1, 39>>,
    <<68736, 68786, 1, 64>>, <<68944, 68965, 1, 32>>,
    <<71840, 71871, 1, 32>>, <<93760, 93791, 1, 32>>,
    <<93856, 93880, 1, 27>>, <<125184, 125217, 1, 34>>>>

\* Runs <<first, last>> of the code points with property Cased and without
\* property Case_Ignorable.
CasedLetters ==
  <<<<65, 90>>, <<97, 122>>, <<170, 170>>, <<181, 181>>, <<186, 186>>,
    <<192, 214>>, <<216, 246>>, <<248, 442>>, <<444, 447>>, <<452, 659>>,
    <<662, 687>>, <<880, 883>>, <<886, 887>>, <<891, 893>>, <<895, 895>>,
    <<902, 902>>, <<904, 906>>, <<908, 908>>, <<910, 929>>, <<931, 1013>>,
    <<1015, 1153>>, <<1162, 1327>>, <<1329, 1366>>, <<1376, 1416>>,
    <<4256, 4293>>, <<4295, 4295>>, <<4301, 4301>>, <<4304, 4346>>,
    <<4349, 4351>>, <<5024, 5109>>, <<5112, 5117>>, <<7296, 7306>>,
    <<7312, 7354>>, <<7357, 7359>>, <<7424, 7467>>, <<7531, 7543>>,
    <<7545, 7578>>, <<7680, 7957>>, <<7960, 7965>>, <<7968, 8005>>,
    <<8008, 8013>>, <<8016, 8023>>, <<8025, 8025>>, <<8027, 8027>>,
    <<8029, 8029>>, <<8031, 8061>>, <<8064, 8116>>, <<8118, 8124>>,
    <<8126, 8126>>, <<8130, 8132>>, <<8134, 8140>>, <<8144, 8147>>,
    <<8150, 8155>>, <<8160, 8172>>, <<8178, 8180>>, <<8182, 8188>>,
    <<8450, 8450>>, <<8455, 8455>>, <<8458, 8467>>, <<8469, 8469>>,
    <<8473, 8477>>, <<8484, 8484>>, <<8486, 8486>>, <<8488, 8488>>,
    <<8490, 8493>>, <<8495, 8500>>, <<8505, 8505>>, <<8508, 8511>>,
    <<8517, 8521>>, <<8526, 8526>>, <<8544, 8575>>, <<8579, 8580>>,
    <<9398, 9449>>, <<11264, 11387>>, <<11390, 11492>>, <<11499, 11502>>,
    <<11506, 11507>>, <<11520, 11557>>, <<11559, 11559>>, <<11565, 11565>>,
    <<42560, 42605>>, <<42624, 42651>>, <<42786, 42863>>, <<42865, 42887>>,
    <<42891, 42894>>, <<42896, 42972>>, <<42997, 42998>>, <<43002, 43002>>,
    <<43824, 43866>>, <<43872, 43880>>, <<43888, 43967>>, <<64256, 64262>>,
    <<64275, 64279>>, <<65313, 65338>>, <<65345, 65370>>, <<66560, 66639>>,
    <<66736, 66771>>, <<66776, 66811>>, <<66928, 66938>>, <<66940, 66954>>,
    <<66956, 66962>>, <<66964, 66965>>, <<66967, 66977>>, <<66979, 66993>>,
    <<66995, 67001>>, <<67003, 67004>>, <<68736, 68786>>, <<68800, 68850>>,
    <<68944, 68965>>, <<68976, 68997>>, <<71840, 71903>>, <<93760, 93823>>,
    <<93856, 93880>>, <<93883, 93907>>, <<119808, 119892>>,
    <<119894, 119964>>, <<119966, 119967>>, <<119970, 119970>>,
    <<119973, 119974>>, <<119977, 119980>>, <<119982, 119993>>,
    <<119995, 119995>>, <<119997, 120003>>, <<120005, 120069>>,
    <<120071, 120074>>, <<120077, 120084>>, <<120086, 120092>>,
    <<120094, 120121>>, <<120123, 120126>>, <<120128, 120132>>,
    <<120134, 120134>>, <<120138, 120144>>, <<120146, 120485>>,
    <<120488, 120512>>, <<120514, 120538>>, <<120540, 120570>>,
    <<120572, 120596>>, <<120598, 120628>>, <<120630, 120654>>,
    <<120656, 120686>>, <<120688, 120712>>, <<120714, 120744>>,
    <<120746, 120770>>, <<120772, 120779>>, <<122624, 122633>>,
    <<122635, 122654>>, <<122661, 122666>>, <<125184, 125251>>,
    <<127280, 127305>>, <<127312, 127337>>, <<127344, 127369>>>>

\* Runs <<first, last>> of the code points with property Case_Ignorable.
CaseIgnorables ==
  <<<<39, 39>>, <<46, 46>>, <<58, 58>>, <<94, 94>>, <<96, 96>>, <<168, 168>>,
    <<173, 173>>, <<175, 175>>, <<180, 180>>, <<183, 184>>, <<688, 879>>,
    <<884, 885>>, <<890, 890>>, <<900, 901>>, <<903, 903>>, <<1155, 1161>>,
    <<1369, 1369>>, <<1375, 1375>>, <<1425, 1469>>, <<1471, 1471>>,
    <<1473, 1474>>, <<1476, 1477>>, <<1479, 1479>>, <<1524, 1524>>,
    <<1536, 1541>>, <<1552, 1562>>, <<1564, 1564>>, <<1600, 1600>>,
    <<1611, 1631>>, <<1648, 1648>>, <<1750, 1757>>, <<1759, 1768>>,
    <<1770, 1773>>, <<1807, 1807>>, <<1809, 1809>>, <<1840, 1866>>,
    <<1958, 1968>>, <<2027, 2037>>, <<2042, 2042>>, <<2045, 2045>>,
    <<2070, 2093>>, <<2137, 2139>>, <<2184, 2184>>, <<2192, 2193>>,
    <<2199, 2207>>, <<2249, 2306>>, <<2362, 2362>>, <<2364, 2364>>,
    <<2369, 2376>>, <<2381, 2381>>, <<2385, 2391>>, <<2402, 2403>>,
    <<2417, 2417>>, <<2433, 2433>>, <<2492, 2492>>, <<2497, 2500>>,
    <<2509, 2509>>, <<2530, 2531>>, <<2558, 2558>>, <<2561, 2562>>,
    <<2620, 2620>>, <<2625, 2626>>, <<2631, 2632>>, <<2635, 2637>>,
    <<2641, 2641>>, <<2672, 2673>>, <<2677, 2677>>, <<2689, 2690>>,
    <<2748, 2748>>, <<2753, 2757>>, <<2759, 2760>>, <<2765, 2765>>,
    <<2786, 2787>>, <<2810, 2815>>, <<2817, 2817>>, <<2876, 2876>>,
    <<2879, 2879>>, <<2881, 2884>>, <<2893, 2893>>, <<2901, 2902>>,
    <<2914, 2915>>, <<2946, 2946>>, <<3008, 3008>>, <<3021, 3021>>,
    <<3072, 3072>>, <<3076, 3076>>, <<3132, 3132>>, <<3134, 3136>>,
    <<3142, 3144>>, <<3146, 3149>>, <<3157, 3158>>, <<3170, 3171>>,
    <<3201, 3201>>, <<3260, 3260>>, <<3263, 3263>>, <<3270, 3270>>,
    <<3276, 3277>>, <<3298, 3299>>, <<3328, 3329>>, <<3387, 3388>>,
    <<3393, 3396>>, <<3405, 3405>>, <<3426, 3427>>, <<3457, 3457>>,
    <<3530, 3530>>, <<3538, 3540>>, <<3542, 3542>>, <<3633, 3633>>,
    <<3636, 3642>>, <<3654, 3662>>, <<3761, 3761>>, <<3764, 3772>>,
    <<3782, 3782>>, <<3784, 3790>>, <<3864, 3865>>, <<3893, 3893>>,
    <<3895, 3895>>, <<3897, 3897>>, <<3953, 3966>>, <<3968, 3972>>,
    <<3974, 3975>>, <<3981, 3991>>, <<3993, 4028>>, <<4038, 4038>>,
    <<4141, 4144>>, <<4146, 4151>>, <<4153, 4154>>, <<4157, 4158>>,
    <<4184, 4185>>, <<4190, 4192>>, <<4209, 4212>>, <<4226, 4226>>,
    <<4229, 4230>>, <<4237, 4237>>, <<4253, 4253>>, <<4348, 4348>>,
    <<4957, 4959>>, <<5906, 5908>>, <<5938, 5939>>, <<5970, 5971>>,
    <<6002, 6003>>, <<6068, 6069>>, <<6071, 6077>>, <<6086, 6086>>,
    <<6089, 6099>>, <<6103, 6103>>, <<6109, 6109>>, <<6155, 6159>>,
    <<6211, 6211>>, <<6277, 6278>>, <<6313, 6313>>, <<6432, 6434>>,
    <<6439, 6440>>, <<6450, 6450>>, <<6457, 6459>>, <<6679, 6680>>,
    <<6683, 6683>>, <<6742, 6742>>, <<6744, 6750>>, <<6752, 6752>>,
    <<6754, 6754>>, <<6757, 6764>>, <<6771, 6780>>, <<6783, 6783>>,
    <<6823, 6823>>, <<6832, 6877>>, <<6880, 6891>>, <<6912, 6915>>,
    <<6964, 6964>>, <<6966, 6970>>, <<6972, 6972>>, <<6978, 6978>>,
    <<7019, 7027>>, <<7040, 7041>>, <<7074, 7077>>, <<7080, 7081>>,
    <<7083, 7085>>, <<7142, 7142>>, <<7144, 7145>>, <<7149, 7149>>,
    <<7151, 7153>>, <<7212, 7219>>, <<7222, 7223>>, <<7288, 7293>>,
    <<7376, 7378>>, <<7380, 7392>>, <<7394, 7400>>, <<7405, 7405>>,
    <<7412, 7412>>, <<7416, 7417>>, <<7468, 7530>>, <<7544, 7544>>,
    <<7579, 7679>>, <<8125, 8125>>, <<8127, 8129>>, <<8141, 8143>>,
    <<8157, 8159>>, <<8173, 8175>>, <<8189, 8190>>, <<8203, 8207>>,
    <<8216, 8217>>, <<8228, 8228>>, <<8231, 8231>>, <<8234, 8238>>,
    <<8288, 8292>>, <<8294, 8303>>, <<8305, 8305>>, <<8319, 8319>>,
    <<8336, 8348>>, <<8400, 8432>>, <<11388, 11389>>, <<11503, 11505>>,
    <<11631, 11631>>, <<11647, 11647>>, <<11744, 11775>>, <<11823, 11823>>,
    <<12293, 12293>>, <<12330, 12333>>, <<12337, 12341>>, <<12347, 12347>>,
    <<12441, 12446>>, <<12540, 12542>>, <<40981, 40981>>, <<42232, 42237>>,
    <<42508, 42508>>, <<42607, 42610>>, <<42612, 42621>>, <<42623, 42623>>,
    <<42652, 42655>>, <<42736, 42737>>, <<42752, 42785>>, <<42864, 42864>>,
    <<42888, 42890>>, <<42993, 42996>>, <<43000, 43001>>, <<43010, 43010>>,
    <<43014, 43014>>, <<43019, 43019>>, <<43045, 43046>>, <<43052, 43052>>,
    <<43204, 43205>>, <<43232, 43249>>, <<43263, 43263>>, <<43302, 43309>>,
    <<43335, 43345>>, <<43392, 43394>>, <<43443, 43443>>, <<43446, 43449>>,
    <<43452, 43453>>, <<43471, 43471>>, <<43493, 43494>>, <<43561, 43566>>,
    <<43569, 43570>>, <<43573, 43574>>, <<43587, 43587>>, <<43596, 43596>>,
    <<43632, 43632>>, <<43644, 43644>>, <<43696, 43696>>, <<43698, 43700>>,
    <<43703, 43704>>, <<43710, 43711>>, <<43713, 43713>>, <<43741, 43741>>,
    <<43756, 43757>>, <<43763, 43764>>, <<43766, 43766>>, <<43867, 43871>>,
    <<43881, 43883>>, <<44005, 44005>>, <<44008, 44008>>, <<44013, 44013>>,
    <<64286, 64286>>, <<64434, 64450>>, <<65024, 65039>>, <<65043, 65043>>,
    <<65056, 65071>>, <<65106, 65106>>, <<65109, 65109>>, <<65279, 65279>>,
    <<65287, 65287>>, <<65294, 65294>>, <<65306, 65306>>, <<65342, 65342>>,
    <<65344, 65344>>, <<65392, 65392>>, <<65438, 65439>>, <<65507, 65507>>,
    <<65529, 65531>>, <<66045, 66045>>, <<66272, 66272>>, <<66422, 66426>>,
    <<67456, 67461>>, <<67463, 67504>>, <<67506, 67514>>, <<68097, 68099>>,
    <<68101, 68102>>, <<68108, 68111>>, <<68152, 68154>>, <<68159, 68159>>,
    <<68325, 68326>>, <<68900, 68903>>, <<68942, 68942>>, <<68969, 68973>>,
    <<68975, 68975>>, <<69291, 69292>>, <<69317, 69317>>, <<69370, 69375>>,
    <<69446, 69456>>, <<69506, 69509>>, <<69633, 69633>>, <<69688, 69702>>,
    <<69744, 69744>>, <<69747, 69748>>, <<69759, 69761>>, <<69811, 69814>>,
    <<69817, 69818>>, <<69821, 69821>>, <<69826, 69826>>, <<69837, 69837>>,
    <<69888, 69890>>, <<69927, 69931>>, <<69933, 69940>>, <<70003, 70003>>,
    <<70016, 70017>>, <<70070, 70078>>, <<70089, 70092>>, <<70095, 70095>>,
    <<70191, 70193>>, <<70196, 70196>>, <<70198, 70199>>, <<70206, 70206>>,
    <<70209, 70209>>, <<70367, 70367>>, <<70371, 70378>>, <<70400, 70401>>,
    <<70459, 70460>>, <<70464, 70464>>, <<70502, 70508>>, <<70512, 70516>>,
    <<70587, 70592>>, <<70606, 70606>>, <<70608, 70608>>, <<70610, 70610>>,
    <<70625, 70626>>, <<70712, 70719>>, <<70722, 70724>>, <<70726, 70726>>,
    <<70750, 70750>>, <<70835, 70840>>, <<70842, 70842>>, <<70847, 70848>>,
    <<70850, 70851>>, <<71090, 71093>>, <<71100, 71101>>, <<71103, 71104>>,
    <<71132, 71133>>, <<71219, 71226>>, <<71229, 71229>>, <<71231, 71232>>,
    <<71339, 71339>>, <<71341, 71341>>, <<71344, 71349>>, <<71351, 71351>>,
    <<71453, 71453>>, <<71455, 71455>>, <<71458, 71461>>, <<71463, 71467>>,
    <<71727, 71735>>, <<71737, 71738>>, <<71995, 71996>>, <<71998, 71998>>,
    <<72003, 72003>>, <<72148, 72151>>, <<72154, 72155>>, <<72160, 72160>>,
    <<72193, 72202>>, <<72243, 72248>>, <<72251, 72254>>, <<72263, 72263>>,
    <<72273, 72278>>, <<72281, 72283>>, <<72330, 72342>>, <<72344, 72345>>,
    <<72544, 72544>>, <<72546, 72548>>, <<72550, 72550>>, <<72752, 72758>>,
    <<72760, 72765>>, <<72767, 72767>>, <<72850, 72871>>, <<72874, 72880>>,
    <<72882, 72883>>, <<72885, 72886>>, <<73009, 73014>>, <<73018, 73018>>,
    <<73020, 73021>>, <<73023, 73029>>, <<73031, 73031>>, <<73104, 73105>>,
    <<73109, 73109>>, <<73111, 73111>>, <<73177, 73177>>, <<73459, 73460>>,
    <<73472, 73473>>, <<73526, 73530>>, <<73536, 73536>>, <<73538, 73538>>,
    <<73562, 73562>>, <<78896, 78912>>, <<78919, 78933>>, <<90398, 90409>>,
    <<90413, 90415>>, <<92912, 92916>>, <<92976, 92982>>, <<92992, 92995>>,
    <<93504, 93506>>, <<93547, 93548>>, <<94031, 94031>>, <<94095, 94111>>,
    <<94176, 94177>>, <<94179, 94180>>, <<94194, 94195>>, <<110576, 110579>>,
    <<110581, 110587>>, <<110589, 110590>>, <<113821, 113822>>,
    <<113824, 113827>>, <<118528, 118573>>, <<118576, 118598>>,
    <<119143, 119145>>, <<119155, 119170>>, <<119173, 119179>>,
    <<119210, 119213>>, <<119362, 119364>>, <<121344, 121398>>,
    <<121403, 121452>>, <<121461, 121461>>, <<121476, 121476>>,
    <<121499, 121503>>, <<121505, 121519>>, <<122880, 122886>>,
    <<122888, 122904>>, <<122907, 122913>>, <<122915, 122916>>,
    <<122918, 122922>>, <<122928, 122989>>, <<123023, 123023>>,
    <<123184, 123197>>, <<123566, 123566>>, <<123628, 123631>>,
    <<124139, 124143>>, <<124398, 124399>>, <<124643, 124643>>,
    <<124646, 124646>>, <<124654, 124655>>, <<124661, 124661>>,
    <<124671, 124671>>, <<125136, 125142>>, <<125252, 125259>>,
    <<127995, 127999>>, <<917505, 917505>>, <<917536, 917631>>,
    <<917760, 917999>>>>

\* The code points of a string: a high surrogate followed by a low surrogate
\* is one code point, any other unit (an unpaired surrogate too) is its own.
\* A unit is the second of a pair exactly when it is a low surrogate that
\* follows a high one (a high surrogate is never the second of a pair).
codePoints(s) ==
  LET second(i) == i > 1 /\ s[i - 1] \in 55296..56319 /\ s[i] \in 56320..57343
      firsts    == SelectSeq(array([i \in 1..Len(s) |-> i]), LAMBDA i : ~second(i))
  IN  array([k \in 1..Len(firsts) |->
               IF firsts[k] < Len(s) /\ second(firsts[k] + 1)
               THEN 65536 + (s[firsts[k]] - 55296) * 1024 + (s[firsts[k] + 1] - 56320)
               ELSE s[firsts[k]]])

\* The code units of one code point
codeUnits(cp) ==
  IF cp < 65536 THEN <<cp>>
  ELSE <<55296 + ((cp - 65536) \div 1024), 56320 + ((cp - 65536) % 1024)>>

inRuns(cp, runs) == \E i \in 1..Len(runs) : cp >= runs[i][1] /\ cp <= runs[i][2]

\* The simple lower-case mapping of a code point
toLower(cp) ==
  LET hits == {i \in 1..Len(LowerCaseMappings) :
                 /\ cp >= LowerCaseMappings[i][1]
                 /\ cp <= LowerCaseMappings[i][2]
                 /\ (cp - LowerCaseMappings[i][1]) % LowerCaseMappings[i][3] = 0}
  IN  IF hits = {} THEN cp
      ELSE cp + LowerCaseMappings[CHOOSE i \in hits : TRUE][4]

\* Condition Final_Sigma at position i: a cased letter comes before, with
\* only case-ignorable code points in between, and none comes after in the
\* same way.
finalSigma(cps, i) ==
  /\ \E j \in 1..(i - 1) :
       /\ inRuns(cps[j], CasedLetters)
       /\ \A k \in (j + 1)..(i - 1) : inRuns(cps[k], CaseIgnorables)
  /\ ~\E j \in (i + 1)..Len(cps) :
        /\ inRuns(cps[j], CasedLetters)
        /\ \A k \in (i + 1)..(j - 1) : inRuns(cps[k], CaseIgnorables)

\* The lower-case form, in code units, of the code point at position i:
\* U+0130 becomes i followed by U+0307, U+03A3 becomes the final or the
\* ordinary small sigma.
lowerAt(cps, i) ==
  IF cps[i] = 304 THEN <<105, 775>>
  ELSE IF cps[i] = 931 THEN (IF finalSigma(cps, i) THEN <<962>> ELSE <<963>>)
  ELSE codeUnits(toLower(cps[i]))

\* The lower-case forms of the code points at positions lo..hi, in order
RECURSIVE lowerBetween(_, _, _)
lowerBetween(cps, lo, hi) ==
  IF lo > hi THEN << >>
  ELSE IF lo = hi THEN lowerAt(cps, lo)
  ELSE lowerBetween(cps, lo, (lo + hi) \div 2)
         \o lowerBetween(cps, (lo + hi) \div 2 + 1, hi)

toLowerCase(s) == LET cps == codePoints(s) IN lowerBetween(cps, 1, Len(cps))

\* String.prototype.includes
includes(s, t) ==
  \E i \in 0..(Len(s) - Len(t)) : \A j \in 1..Len(t) : s[i + j] = t[j]

\* String.prototype.split with a one-unit separator: always at least one part.
RECURSIVE split(_, _)
split(s, sep) ==
  IF \A i \in 1..Len(s) : s[i] # sep THEN <<s>>
  ELSE LET i == CHOOSE k \in 1..Len(s) :
                   s[k] = sep /\ \A j \in 1..(k - 1) : s[j] # sep
       IN  <<SubSeq(s, 1, i - 1)>> \o split(SubSeq(s, i + 1, Len(s)), sep)

\* Array.prototype.join of strings with a one-unit separator
RECURSIVE join(_, _)
join(parts, sep) ==
  IF Len(parts) = 0 THEN << >>
  ELSE IF Len(parts) = 1 THEN parts[1]
  ELSE parts[1] \o <<sep>> \o join(Tail(parts), sep)

IsDigit(c) == c >= 48 /\ c <= 57

(***************************************************************************)
(* Numbers.  The counts, indices and lengths of the program are integers   *)
(* far below 2^31 and are kept as integers.  A number that need not be one *)
(* of those (the result of parseInt, a quotient, the retention figures) is *)
(* an IEEE 754 double:                                                     *)
(*   [isNaN, isFinite, negative, significand, exponent]                    *)
(* a finite one being (-1)^negative * significand * 2^exponent, where      *)
(* significand is a binary numeral (bits, most significant first) of at    *)
(* most PRECISION bits whose first and last bits are 1; zero is the empty  *)
(* numeral with exponent 0.  No operation of the program yields a value    *)
(* below the normal range, so the exponent has no lower limit here.        *)
(***************************************************************************)

PRECISION == 53
MAX_EXPONENT == 1024

NaN ==
  [isNaN |-> TRUE, isFinite |-> FALSE, negative |-> FALSE,
   significand |-> << >>, exponent |-> 0]

Infinity(neg) ==
  [isNaN |-> FALSE, isFinite |-> FALSE, negative |-> neg,
   significand |-> << >>, exponent |-> 0]

\* A numeral without its leading zeros
stripZeros(ds) ==
  IF \A k \in 1..Len(ds) : ds[k] = 0 THEN << >>
  ELSE SubSeq(ds, CHOOSE k \in 1..Len(ds) :
                    ds[k] # 0 /\ \A j \in 1..(k - 1) : ds[j] = 0, Len(ds))

\* The number of zeros at the end of a numeral that has a non-zero digit
trailingZeros(ds) ==
  Len(ds) - (CHOOSE k \in 1..Len(ds) :
               ds[k] # 0 /\ \A j \in (k + 1)..Len(ds) : ds[j] = 0)

zeros(n) == array([k \in 1..n |-> 0])

\* A binary numeral plus one
increment(bits) ==
  IF \A k \in 1..Len(bits) : bits[k] = 1 THEN <<1>> \o zeros(Len(bits))
  ELSE LET z == CHOOSE k \in 1..Len(bits) :
                  bits[k] = 0 /\ \A j \in (k + 1)..Len(bits) : bits[j] = 1
       IN  SubSeq(bits, 1, z - 1) \o <<1>> \o zeros(Len(bits) - z)

\* A binary numeral (no leading zero) rounded to PRECISION significant bits,
\* to nearest, ties to even.  sticky tells that the exact value lies above
\* the numeral (by less than one unit of its last bit).
roundBits(bits, sticky) ==
  IF Len(bits) <= PRECISION THEN bits
  ELSE LET kept == SubSeq(bits, 1, PRECISION)
           more == sticky \/ \E k \in (PRECISION + 2)..Len(bits) : bits[k] = 1
           up   == bits[PRECISION + 1] = 1 /\ (more \/ kept[PRECISION] = 1)
       IN  (IF up THEN increment(kept) ELSE kept) \o zeros(Len(bits) - PRECISION)

\* The double nearest to bits * 2^exp (plus a fraction of the last bit when
\* sticky, which needs more than PRECISION bits), with the given sign
double(neg, bits, exp, sticky) ==
  LET r == roundBits(stripZeros(bits), sticky)
  IN  IF Len(r) = 0
      THEN [isNaN |-> FALSE, isFinite |-> TRUE, negative |-> neg,
            significand |-> << >>, exponent |-> 0]
      ELSE IF Len(r) + exp > MAX_EXPONENT THEN Infinity(neg)
      ELSE [isNaN |-> FALSE, isFinite |-> TRUE, negative |-> neg,
            significand |-> SubSeq(r, 1, Len(r) - trailingZeros(r)),
            exponent |-> exp + trailingZeros(r)]

\* Long numerals are handled in groups of bits small enough for the
\* arithmetic on one group to stay below 2^30.
WORD == 30

\* The value of a binary numeral of at most WORD bits
RECURSIVE valueOf(_)
valueOf(bits) ==
  IF Len(bits) = 0 THEN 0
  ELSE IF Len(bits) = 1 THEN bits[1]
  ELSE LET h == Len(bits) \div 2
       IN  valueOf(SubSeq(bits, 1, h)) * 2^(Len(bits) - h)
             + valueOf(SubSeq(bits, h + 1, Len(bits)))

\* The binary numeral, on w bits, of an integer v with 0 <= v < 2^w
bitsOfWidth(v, w) == array([k \in 1..w |-> (v \div 2^(w - k)) % 2])

\* The binary numeral of an integer n with 0 <= n < 2^WORD
bitsOf(n) == stripZeros(bitsOfWidth(n, WORD))

\* The double of an integer n with 0 <= n < 2^WORD
integer(n) == double(FALSE, bitsOf(n), 0, FALSE)

\* Long division of a binary numeral by n, w bits at a time: the quotient
\* bits and the remainder after the first j groups
RECURSIVE divideGroups(_, _, _, _)
divideGroups(bits, n, w, j) ==
  IF j = 0 THEN [q |-> << >>, r |-> 0]
  ELSE LET prev == divideGroups(bits, n, w, j - 1)
           t    == prev.r * 2^w + valueOf(SubSeq(bits, (j - 1) * w + 1, j * w))
       IN  [q |-> prev.q \o bitsOfWidth(t \div n, w), r |-> t % n]

\* x / n for a finite double x >= 0 and an integer n with 0 < n < 2^(WORD - 1):
\* long division of the significand, carried far enough for the rounding
quotient(x, n) ==
  LET w      == WORD - Len(bitsOf(n))
      groups == (Len(x.significand) + PRECISION + 2 + Len(bitsOf(n)) + w - 1) \div w
      pad    == groups * w - Len(x.significand)
      d      == divideGroups(x.significand \o zeros(pad), n, w, groups)
  IN  IF Len(x.significand) = 0 THEN x
      ELSE double(FALSE, d.q, x.exponent - pad, d.r # 0)

\* Sum of two binary numerals of the same length, w bits at a time: the
\* bits and the carry after the last j groups
RECURSIVE addGroups(_, _, _, _)
addGroups(a, b, w, j) ==
  IF j = 0 THEN [bits |-> << >>, carry |-> 0]
  ELSE LET prev == addGroups(a, b, w, j - 1)
           from == Len(a) - j * w + 1
           t    == valueOf(SubSeq(a, from, from + w - 1))
                     + valueOf(SubSeq(b, from, from + w - 1)) + prev.carry
       IN  [bits |-> bitsOfWidth(t % 2^w, w) \o prev.bits, carry |-> t \div 2^w]

\* x + y for finite doubles x, y >= 0: the exact sum, rounded once
sum(x, y) ==
  LET e      == IF x.exponent < y.exponent THEN x.exponent ELSE y.exponent
      xb     == x.significand \o zeros(x.exponent - e)
      yb     == y.significand \o zeros(y.exponent - e)
      w      == WORD - 1
      groups == ((IF Len(xb) > Len(yb) THEN Len(xb) ELSE Len(yb)) + w - 1) \div w
      r      == addGroups(zeros(groups * w - Len(xb)) \o xb,
                          zeros(groups * w - Len(yb)) \o yb, w, groups)
  IN  IF Len(x.significand) = 0 THEN y
      ELSE IF Len(y.significand) = 0 THEN x
      ELSE double(FALSE, <<r.carry>> \o r.bits, e, FALSE)

\* Product of a binary numeral by m, w bits at a time: the bits and the
\* carry after the last j groups
RECURSIVE multiplyGroups(_, _, _, _)
multiplyGroups(a, m, w, j) ==
  IF j = 0 THEN [bits |-> << >>, carry |-> 0]
  ELSE LET prev == multiplyGroups(a, m, w, j - 1)
           from == Len(a) - j * w + 1
           t    == valueOf(SubSeq(a, from, from + w - 1)) * m + prev.carry
       IN  [bits |-> bitsOfWidth(t % 2^w, w) \o prev.bits, carry |-> t \div 2^w]

\* x * m for a finite double x >= 0 and an integer m with 0 < m < 2^(WORD - 1):
\* the exact product, rounded once
product(x, m) ==
  LET w      == WORD - Len(bitsOf(m))
      groups == (Len(x.significand) + w - 1) \div w
      r      == multiplyGroups(zeros(groups * w - Len(x.significand)) \o x.significand,
                               m, w, groups)
  IN  double(FALSE, bitsOf(r.carry) \o r.bits, x.exponent, FALSE)

\* The bits taken at a time off a decimal numeral
DECIMAL_WORD == 27

\* The quotient of a decimal numeral by m <= 2^DECIMAL_WORD (carry: the
\* remainder so far)
RECURSIVE divideDecimal(_, _, _)
divideDecimal(ds, m, carry) ==
  IF Len(ds) = 0 THEN << >>
  ELSE <<(10 * carry + ds[1]) \div m>>
         \o divideDecimal(Tail(ds), m, (10 * carry + ds[1]) % m)

\* The remainder of a decimal numeral by m <= 2^DECIMAL_WORD
RECURSIVE remainderDecimal(_, _)
remainderDecimal(ds, m) ==
  IF Len(ds) = 0 THEN 0
  ELSE (10 * remainderDecimal(SubSeq(ds, 1, Len(ds) - 1), m) + ds[Len(ds)]) % m

\* The bits of a decimal numeral, DECIMAL_WORD at a time (leading zeros
\* are left in the first group)
RECURSIVE toBinary(_)
toBinary(ds) ==
  IF Len(ds) = 0 THEN << >>
  ELSE toBinary(stripZeros(divideDecimal(ds, 2^DECIMAL_WORD, 0)))
         \o bitsOfWidth(remainderDecimal(ds, 2^DECIMAL_WORD), DECIMAL_WORD)

\* parseInt(s, 10): skip leading white space, an optional sign, then the
\* longest run of decimal digits; NaN when that run is empty, else the
\* double nearest to the integer the run denotes.
parseInt(s) ==
  LET ns    == {i \in 1..Len(s) : s[i] \notin WhiteSpaceUnits}
      start == IF ns = {} THEN Len(s) + 1
               ELSE CHOOSE i \in ns : \A j \in ns : i <= j
      signed == start <= Len(s) /\ s[start] \in {43, 45}
      from  == IF signed THEN start + 1 ELSE start
      stop  == IF \A i \in from..Len(s) : IsDigit(s[i]) THEN Len(s) + 1
               ELSE CHOOSE i \in from..Len(s) :
                      ~IsDigit(s[i]) /\ \A j \in from..(i - 1) : IsDigit(s[j])
      run   == array([i \in 1..(stop - from) |-> s[from + i - 1] - 48])
  IN  IF stop = from THEN NaN
      ELSE double(signed /\ s[start] = 45, toBinary(stripZeros(run)), 0, FALSE)

\* Number-to-string conversion of a non-negative integer (template literal)
RECURSIVE numberToString(_)
numberToString(n) ==
  IF n < 10 THEN <<48 + n>>
  ELSE numberToString(n \div 10) \o <<48 + (n % 10)>>

\* Order of the default Array.prototype.sort on strings: by code units.
RECURSIVE codeUnitLess(_, _)
codeUnitLess(a, b) ==
  IF Len(b) = 0 THEN FALSE
  ELSE IF Len(a) = 0 THEN TRUE
  ELSE IF a[1] # b[1] THEN a[1] < b[1]
  ELSE codeUnitLess(Tail(a), Tail(b))

(***************************************************************************)
(* JavaScript values used by the aggregations.                             *)
(*                                                                         *)
(* A plain object used as a map ({}): the sequence of its own properties   *)
(* [key, value] in insertion order.  A lookup of a key the object does not *)
(* own falls through to Object.prototype: the names in                     *)
(* ObjectPrototypeFunctions yield a function and "__proto__" yields        *)
(* Object.prototype itself, both truthy.                                   *)
(***************************************************************************)

ObjectPrototypeKeys ==
  {ObjectPrototypeFunctions[i] : i \in 1..Len(ObjectPrototypeFunctions)}
    \cup {ProtoAccessor}

hasOwn(obj, k) == \E i \in 1..Len(obj) : obj[i].key = k

ownValue(obj, k) == obj[CHOOSE i \in 1..Len(obj) : obj[i].key = k].value

\* obj[k] = v for a key that is not "__proto__"
put(obj, k, v) ==
  IF hasOwn(obj, k)
  THEN [obj EXCEPT ![CHOOSE i \in 1..Len(obj) : obj[i].key = k] =
                     [key |-> k, value |-> v]]
  ELSE Append(obj, [key |-> k, value |-> v])

\* A canonical array index ("0", "7", "10", ... up to 2^32 - 2): such keys are
\* listed first, in ascending numeric order, by Object.keys / Object.entries.
isArrayIndex(k) ==
  /\ Len(k) >= 1
  /\ \A i \in 1..Len(k) : IsDigit(k[i])
  /\ Len(k) = 1 \/ k[1] # 48
  /\ \/ Len(k) < 10
     \/ Len(k) = 10 /\ ~codeUnitLess(<<52, 50, 57, 52, 57, 54, 55, 50, 57, 52>>, k)

numericLess(a, b) == Len(a) < Len(b) \/ (Len(a) = Len(b) /\ codeUnitLess(a, b))

\* The elements of a finite set of strings in ascending numeric order
RECURSIVE ascendingIndices(_)
ascendingIndices(S) ==
  IF S = {} THEN << >>
  ELSE LET m == CHOOSE x \in S : \A y \in S \ {x} : numericLess(x, y)
       IN  <<m>> \o ascendingIndices(S \ {m})

\* OrdinaryOwnPropertyKeys: array indices ascending, then the other keys in
\* insertion order.  The result is a sequence of positions into obj.
ownPropertyOrder(obj) ==
  LET idxKeys == {obj[i].key : i \in {j \in 1..Len(obj) : isArrayIndex(obj[j].key)}}
      first   == ascendingIndices(idxKeys)
      rest    == SelectSeq(obj,
                           LAMBDA p : ~isArrayIndex(p.key))
  IN  array([i \in 1..Len(first) |->
               [key |-> first[i], value |-> ownValue(obj, first[i])]])
        \o rest

\* Array.prototype.sort() with no comparator, on strings: insertion of each
\* element into the sorted prefix, by code units.
RECURSIVE sortStrings(_)
sortStrings(a) ==
  IF Len(a) = 0 THEN << >>
  ELSE LET rest == sortStrings(SubSeq(a, 1, Len(a) - 1))
           x    == a[Len(a)]
           n    == Cardinality({i \in 1..Len(rest) : ~codeUnitLess(x, rest[i])})
       IN  SubSeq(rest, 1, n) \o <<x>> \o SubSeq(rest, n + 1, Len(rest))

\* Array.prototype.sort((a, b) => key(b) - key(a)), keys[i] being the key of
\* a[i]: stable, descending by key (equal keys keep their order).
sortDescending(a, keys) ==
  LET pos == array([i \in 1..Len(a) |->
                      1 + Cardinality({j \in 1..Len(a) : keys[j] > keys[i]})
                        + Cardinality({j \in 1..(i - 1) : keys[j] = keys[i]})])
  IN  array([p \in 1..Len(a) |-> a[CHOOSE i \in 1..Len(a) : pos[i] = p]])

(***************************************************************************)
(* services/dataProcessing: ingestion.                                     *)
(***************************************************************************)

Fields == {HEADER_MAPPING[i][2] : i \in 1..Len(HEADER_MAPPING)}

zhKeyOf(f) ==
  HEADER_MAPPING[CHOOSE i \in 1..Len(HEADER_MAPPING) : HEADER_MAPPING[i][2] = f][1]

\* One raw row of Papa.parse(header: true): a function from the header
\* strings present in the row to their (string) values.  cellOf is the value
\* newRow stores under field f: '' for a missing or empty cell, the trimmed
\* cell otherwise.
cellOf(row, f) ==
  IF zhKeyOf(f) \in DOMAIN row /\ row[zhKeyOf(f)] # << >>
  THEN trim(row[zhKeyOf(f)])
  ELSE << >>

\* The record built for one row: one field per entry of HEADER_MAPPING
newRow(row) ==
  [questionId      |-> cellOf(row, "questionId"),
   content         |-> cellOf(row, "content"),
   time            |-> cellOf(row, "time"),
   source          |-> cellOf(row, "source"),
   userId          |-> cellOf(row, "userId"),
   company         |-> cellOf(row, "company"),
   userName        |-> cellOf(row, "userName"),
   nickname        |-> cellOf(row, "nickname"),
   email           |-> cellOf(row, "email"),
   feedbackStatus  |-> cellOf(row, "feedbackStatus"),
   feedbackContent |-> cellOf(row, "feedbackContent")]

\* keepRow with the test of item.time left out
keepRowContentOnly(item) == item.content # << >>

keepRow(item) == item.content # << >> /\ item.time # << >>

\* The value parseCSV's promise resolves with, for the rows Papa delivers
parseCSV(rows) ==
  SelectSeq(array([i \in 1..Len(rows) |-> newRow(rows[i])]), keepRow)

\* isInternalUser
isInternalUser(entry) ==
  LET textToCheck ==
        toLowerCase(join(<<entry.company, entry.userName,
                           entry.nickname, entry.email>>, SPACE))
  IN  \E i \in 1..Len(InternalKeywords) : includes(textToCheck, InternalKeywords[i])

(***************************************************************************)
(* Time analysis.                                                          *)
(***************************************************************************)

\* entry.time.split(' ')[0]
datePart(entry) == split(entry.time, SPACE)[1]

\* The stats object of getDailyTrend after the forEach, for a run that does
\* not throw.  A date that names an inherited property is never created as
\* an own key (stats[datePart] is already truthy), so it leaves no entry.
RECURSIVE dailyStats(_)
dailyStats(data) ==
  IF Len(data) = 0 THEN << >>
  ELSE LET stats == dailyStats(SubSeq(data, 1, Len(data) - 1))
           entry == data[Len(data)]
           d     == datePart(entry)
           old   == IF hasOwn(stats, d) THEN ownValue(stats, d)
                    ELSE [queries |-> 0, users |-> {}]
       IN  IF d = << >> \/ d \in ObjectPrototypeKeys
           THEN stats
           ELSE put(stats, d,
                    [queries |-> old.queries + 1,
                     users   |-> IF entry.userId # << >>
                                 THEN old.users \cup {entry.userId}
                                 ELSE old.users])

\* getDailyTrend throws a TypeError when a record with a non-empty userId has
\* a date naming an inherited property: stats[datePart].users is undefined.
getDailyTrendThrows(data) ==
  \E i \in 1..Len(data) :
    datePart(data[i]) \in ObjectPrototypeKeys /\ data[i].userId # << >>

getDailyTrend(data) ==
  LET stats == dailyStats(data)
      dates == sortStrings(array([i \in 1..Len(stats) |-> stats[i].key]))
  IN  array([i \in 1..Len(dates) |->
               [date    |-> dates[i],
                queries |-> ownValue(stats, dates[i]).queries,
                dau     |-> Cardinality(ownValue(stats, dates[i]).users)]])

\* hour >= 0 && hour < 24 for a number that is not NaN: the index in 0..23
\* that counts[hour] then names (-0 names index 0), or -1 when the test
\* fails
hourIndex(hour) ==
  IF \E h \in 0..23 :
       hour = [integer(h) EXCEPT !.negative = (h = 0 /\ hour.negative)]
  THEN CHOOSE h \in 0..23 :
         hour = [integer(h) EXCEPT !.negative = (h = 0 /\ hour.negative)]
  ELSE -1

\* hourOf with the isNaN test replaced by a default of 0
hourOfNaNAsZero(entry) ==
  LET parts == split(entry.time, SPACE)
  IN  IF Len(parts) < 2 \/ parts[2] = << >> THEN -1
      ELSE LET hour == parseInt(split(parts[2], COLON)[1])
           IN  IF hour.isNaN THEN 0 ELSE hourIndex(hour)

\* The hour a record is counted under by getHourlyStats, or -1 when it is
\* skipped: no second part after splitting on ' ', an empty one, NaN, or an
\* hour outside 0..23.
hourOf(entry) ==
  LET parts == split(entry.time, SPACE)
  IN  IF Len(parts) < 2 \/ parts[2] = << >> THEN -1
      ELSE LET hour == parseInt(split(parts[2], COLON)[1])
           IN  IF hour.isNaN THEN -1 ELSE hourIndex(hour)

\* counts after the forEach: counts[h + 1] is the JavaScript counts[h]
RECURSIVE hourlyCounts(_)
hourlyCounts(data) ==
  IF Len(data) = 0 THEN array([h \in 1..24 |-> 0])
  ELSE LET counts == hourlyCounts(SubSeq(data, 1, Len(data) - 1))
           hour   == hourOf(data[Len(data)])
       IN  IF hour = -1 THEN counts
           ELSE [counts EXCEPT ![hour + 1] = @ + 1]

getHourlyStats(data) ==
  LET counts == hourlyCounts(data)
  IN  array([i \in 1..24 |->
               [hour  |-> numberToString(i - 1) \o <<COLON, 48, 48>>,
                count |-> counts[i]]])

(***************************************************************************)
(* Content analysis.                                                       *)
(***************************************************************************)

\* regex.test(content) for the i-th intent pattern: an alternation of literal
\* strings under flag i (without flag u), so a substring test in which two
\* code units match when Canonicalize gives the same unit for both.  The
\* units of the patterns are ideographs and the small letters e, h, i, l, o:
\* an ideograph is matched by itself only, a small ASCII letter by itself and
\* by its capital only (Canonicalize never maps a unit above 127 to one
\* below 128).
intentMatches(i, content) ==
  LET text == array([j \in 1..Len(content) |->
                       IF content[j] >= 65 /\ content[j] <= 90
                       THEN content[j] + 32 ELSE content[j]])
  IN  \E k \in 1..Len(IntentPatterns[i]) : includes(text, IntentPatterns[i][k])

\* intentOf without the break: the last matching pattern wins
intentOfLastMatch(entry) ==
  IF \E i \in 1..Len(IntentPatterns) : intentMatches(i, entry.content)
  THEN CHOOSE i \in 1..Len(IntentPatterns) :
         /\ intentMatches(i, entry.content)
         /\ \A j \in (i + 1)..Len(IntentPatterns) : ~intentMatches(j, entry.content)
  ELSE Len(IntentLabels)

\* Index of the label a record increments: the first matching pattern in
\* declaration order (the loop breaks there), else the catch-all.
intentOf(entry) ==
  IF \E i \in 1..Len(IntentPatterns) : intentMatches(i, entry.content)
  THEN CHOOSE i \in 1..Len(IntentPatterns) :
         /\ intentMatches(i, entry.content)
         /\ \A j \in 1..(i - 1) : ~intentMatches(j, entry.content)
  ELSE Len(IntentLabels)

RECURSIVE intentCounts(_)
intentCounts(data) ==
  IF Len(data) = 0 THEN array([i \in 1..Len(IntentLabels) |-> 0])
  ELSE [intentCounts(SubSeq(data, 1, Len(data) - 1))
          EXCEPT ![intentOf(data[Len(data)])] = @ + 1]

classifyIntents(data) ==
  LET counts == intentCounts(data)
  IN  array([i \in 1..Len(IntentLabels) |->
               [name |-> IntentLabels[i], value |-> counts[i]]])

\* termCount with the content and the term compared in lower case
termCountIgnoreCase(data, term) ==
  Cardinality({i \in 1..Len(data) :
                 includes(toLowerCase(data[i].content), toLowerCase(term))})

\* counts[term] after the forEach of a multi-label table
termCount(data, term) ==
  Cardinality({i \in 1..Len(data) : includes(data[i].content, term)})


getMetalDistribution(data) ==
  LET all == array([i \in 1..Len(Metals) |->
                      [name |-> Metals[i], value |-> termCount(data, Metals[i])]])
      kept == SelectSeq(all, LAMBDA nv : nv.value > 0)
  IN  sortDescending(kept, array([i \in 1..Len(kept) |-> kept[i].value]))

getTopKeywords(data) ==
  LET all == array([i \in 1..Len(Keywords) |->
                      [keyword |-> Keywords[i], count |-> termCount(data, Keywords[i])]])
  IN  SelectSeq(sortDescending(all, array([i \in 1..Len(all) |-> all[i].count])),
                LAMBDA kf : kf.count > 0)

(***************************************************************************)
(* User analysis.                                                          *)
(***************************************************************************)

\* counts[k] = (counts[k] || 0) + 1 on a plain object.
\*  - an own count n becomes n + 1, a new ordinary key gets 1;
\*  - a key naming an inherited function reads that function (truthy), and
\*    function + 1 is string concatenation: the own value becomes the
\*    function's source text followed by "1", then "11", ...  It is kept as
\*    [native, ones], the text itself being implementation-defined;
\*  - "__proto__" reads Object.prototype and the assignment goes to the
\*    inherited setter, which ignores a string: nothing is stored.
bump(counts, k) ==
  IF k = ProtoAccessor THEN counts
  ELSE IF k \in ObjectPrototypeKeys
  THEN put(counts, k,
           [native |-> k,
            ones   |-> IF hasOwn(counts, k) THEN ownValue(counts, k).ones + 1 ELSE 1])
  ELSE put(counts, k, IF hasOwn(counts, k) THEN ownValue(counts, k) + 1 ELSE 1)

\* Whether the value stored under a key is a number (not a string)
isCountKey(k) == k \notin ObjectPrototypeKeys

\* (a, b) => b.value - a.value as Array.prototype.sort uses it: the sign of
\* the difference of two numbers; with a string on either side the
\* difference is NaN, which the sort takes as +0.
compareValues(a, b) ==
  IF isCountKey(a.name) /\ isCountKey(b.name)
  THEN (IF b.value > a.value THEN 1 ELSE IF b.value < a.value THEN -1 ELSE 0)
  ELSE 0

\* The key getTopCompanies counts a record under, << >> when it counts none
companyKeyOf(entry) ==
  IF isInternalUser(entry) THEN INTERNAL_LABEL ELSE trim(entry.company)

RECURSIVE companyCounts(_)
companyCounts(data) ==
  IF Len(data) = 0 THEN << >>
  ELSE LET counts == companyCounts(SubSeq(data, 1, Len(data) - 1))
           k      == companyKeyOf(data[Len(data)])
       IN  IF k = << >> THEN counts ELSE bump(counts, k)

namedValues(obj) ==
  LET props == ownPropertyOrder(obj)
  IN  array([i \in 1..Len(props) |->
               [name |-> props[i].key, value |-> props[i].value]])

\* The comparator is consistent on the array when "compares as equal" is
\* transitive: not so when a string value (equal to everything) sits beside
\* two different numbers.
consistentOrder(nvs) ==
  \A i, j, k \in 1..Len(nvs) :
    (compareValues(nvs[i], nvs[j]) = 0 /\ compareValues(nvs[j], nvs[k]) = 0)
      => compareValues(nvs[i], nvs[k]) = 0

\* The orders nvs.sort((a, b) => b.value - a.value) may leave, order[i]
\* being the index in nvs of the entry that ends at index i.  With a
\* consistent comparator the sort is stable and descending: an entry moves
\* ahead of exactly the entries it compares greater than (none at all when
\* a string value makes everything equal).  Otherwise the order is
\* implementation-defined: any arrangement of the entries.
sortOrders(nvs) ==
  IF consistentOrder(nvs)
  THEN {sortDescending(array([i \in 1..Len(nvs) |-> i]),
          array([i \in 1..Len(nvs) |->
                   Cardinality({j \in 1..Len(nvs) :
                                  compareValues(nvs[j], nvs[i]) = 1})]))}
  ELSE {g \in [1..Len(nvs) -> 1..Len(nvs)] :
          \A i, j \in 1..Len(nvs) : g[i] = g[j] => i = j}

\* nvs.sort((a, b) => b.value - a.value): the sorted array, for each order
\* the sort may leave
sortByValue(nvs) ==
  [order \in sortOrders(nvs) |-> array([i \in 1..Len(nvs) |-> nvs[order[i]]])]

TOP_N == 10

\* The array getTopCompanies returns, for each order its sort may leave
getTopCompanies(data) ==
  LET sorted == sortByValue(namedValues(companyCounts(data)))
  IN  [order \in DOMAIN sorted |->
         SubSeq(sorted[order], 1,
                IF Len(sorted[order]) < TOP_N THEN Len(sorted[order]) ELSE TOP_N)]

\* userTypeOf with the company test ahead of the internal test
userTypeOfCompanyFirst(entry) ==
  IF entry.company # << >> /\ trim(entry.company) # << >> THEN 2
  ELSE IF isInternalUser(entry) THEN 1
  ELSE 3

\* The segment one record is counted in: 1 internal, 2 external, 3 unknown
userTypeOf(entry) ==
  IF isInternalUser(entry) THEN 1
  ELSE IF entry.company # << >> /\ trim(entry.company) # << >> THEN 2
  ELSE 3

RECURSIVE userTypeCounts(_)
userTypeCounts(data) ==
  IF Len(data) = 0 THEN <<0, 0, 0>>
  ELSE [userTypeCounts(SubSeq(data, 1, Len(data) - 1))
          EXCEPT ![userTypeOf(data[Len(data)])] = @ + 1]

UserTypeLabels == <<LabelInternal, LabelExternal, LabelUnknownUser>>

getUserTypeDistribution(data) ==
  LET counts == userTypeCounts(data)
  IN  SelectSeq(array([i \in 1..3 |->
                         [name |-> UserTypeLabels[i], value |-> counts[i]]]),
                LAMBDA item : item.value > 0)

sourceKeyOf(entry) ==
  IF entry.source # << >> THEN entry.source ELSE LabelUnknownSource

RECURSIVE sourceCounts(_)
sourceCounts(data) ==
  IF Len(data) = 0 THEN << >>
  ELSE bump(sourceCounts(SubSeq(data, 1, Len(data) - 1)),
            sourceKeyOf(data[Len(data)]))

getSourceDistribution(data) == namedValues(sourceCounts(data))

(***************************************************************************)
(* Summary.                                                                *)
(***************************************************************************)

\* userDays after the forEach of calculateRetention, for a run that does
\* not throw: one own key per date, holding the set of userId values
\* (the empty userId included).
RECURSIVE userDays(_)
userDays(data) ==
  IF Len(data) = 0 THEN << >>
  ELSE LET days == userDays(SubSeq(data, 1, Len(data) - 1))
           e    == data[Len(data)]
           date == datePart(e)
       IN  put(days, date,
               (IF hasOwn(days, date) THEN ownValue(days, date) ELSE {})
                 \cup {e.userId})

\* calculateRetention throws a TypeError when a date names an inherited
\* property: userDays[date] is then a function (or Object.prototype), no Set
\* is created and .add is not a function.
calculateRetentionThrows(data) ==
  \E i \in 1..Len(data) : datePart(data[i]) \in ObjectPrototypeKeys

\* retentionSum and comparisons after the first n pairs of the loop
RECURSIVE retentionLoop(_, _, _)
retentionLoop(days, dates, n) ==
  IF n = 0 THEN [retentionSum |-> integer(0), comparisons |-> 0]
  ELSE LET acc      == retentionLoop(days, dates, n - 1)
           today    == ownValue(days, dates[n])
           tomorrow == ownValue(days, dates[n + 1])
           retained == Cardinality(today \cap tomorrow)
       IN  IF Cardinality(today) > 0
           THEN [retentionSum |-> sum(acc.retentionSum,
                                      quotient(integer(retained), Cardinality(today))),
                 comparisons  |-> acc.comparisons + 1]
           ELSE acc

calculateRetention(data) ==
  LET days  == userDays(data)
      dates == sortStrings(array([i \in 1..Len(days) |-> days[i].key]))
  IN  IF Len(dates) < 2 THEN integer(0)
      ELSE LET acc == retentionLoop(days, dates, Len(dates) - 1)
           IN  IF acc.comparisons > 0
               THEN product(quotient(acc.retentionSum, acc.comparisons), 100)
               ELSE integer(0)

getSummaryStatsThrows(data) ==
  getDailyTrendThrows(data) \/ calculateRetentionThrows(data)

\* The summaries getSummaryStats may return, for a run that does not throw:
\* one per order the sort of the sources may leave.
getSummaryStats(data) ==
  LET totalQueries == Len(data)
      uniqueUsers  == Cardinality({data[i].userId : i \in 1..Len(data)})
      daily        == getDailyTrend(data)
      trends       == sortDescending(daily, array([i \in 1..Len(daily) |-> daily[i].queries]))
      sorted       == sortByValue(getSourceDistribution(data))
  IN  {(LET sources == sorted[order] IN
       [totalQueries      |-> totalQueries,
        uniqueUsers       |-> uniqueUsers,
        avgQueriesPerUser |-> IF uniqueUsers > 0
                              THEN quotient(integer(totalQueries), uniqueUsers)
                              ELSE integer(0),
        retentionRate     |-> calculateRetention(data),
        topSource         |-> IF Len(sources) > 0 THEN sources[1].name ELSE LabelNA,
        busiestDay        |-> IF Len(trends) > 0 THEN trends[1].date ELSE LabelNA]) :
       order \in DOMAIN sorted}

(***************************************************************************)
(* Inputs: raw rows as Papa.parse delivers them, and model responses.      *)
(***************************************************************************)

\* A raw row from its cells <<header, value>>
RawRow(cells) ==
  [k \in {cells[i][1] : i \in 1..Len(cells)} |->
     cells[CHOOSE i \in 1..Len(cells) : cells[i][1] = k][2]]

\* a greeting from an external customer
Row1 ==
  RawRow(<<
    <<zhKeyOf("questionId"), <<113, 49>>>>,  \* questionId: "q1"
    <<zhKeyOf("content"), <<20320, 22909>>>>,  \* content: "你好"
    <<zhKeyOf("time"), <<50, 48, 50, 52, 45, 48, 49, 45, 48, 49, 32, 48, 57, 58, 49, 53, 58, 48, 48>>>>,  \* time: "2024-01-01 09:15:00"
    <<zhKeyOf("source"), <<119, 101, 98>>>>,  \* source: "web"
    <<zhKeyOf("userId"), <<97>>>>,  \* userId: "a"
    <<zhKeyOf("company"), <<65, 99, 109, 101>>>>  \* company: "Acme"
  >>)

\* price before trend; untrimmed cells; empty source; internal by company
Row2 ==
  RawRow(<<
    <<zhKeyOf("content"), <<32, 38108, 20215, 26684, 36208, 21183, 32>>>>,  \* content: " 铜价格走势 "
    <<zhKeyOf("time"), <<50, 48, 50, 52, 45, 48, 49, 45, 48, 49, 32, 50, 51, 58, 53, 57, 58, 53, 57, 32>>>>,  \* time: "2024-01-01 23:59:59 "
    <<zhKeyOf("source"), << >>>>,  \* source: ""
    <<zhKeyOf("userId"), <<98>>>>,  \* userId: "b"
    <<zhKeyOf("company"), <<32, 83, 77, 77, 32>>>>  \* company: " SMM "
  >>)

\* greeting by letter case; internal by userName
Row3 ==
  RawRow(<<
    <<zhKeyOf("content"), <<72, 101, 108, 108, 111, 32, 76, 77, 69, 32, 24211, 23384>>>>,  \* content: "Hello LME 库存"
    <<zhKeyOf("time"), <<50, 48, 50, 52, 45, 48, 49, 45, 48, 50, 32, 49, 48, 58, 51, 48, 58, 48, 48>>>>,  \* time: "2024-01-02 10:30:00"
    <<zhKeyOf("source"), <<97, 112, 112>>>>,  \* source: "app"
    <<zhKeyOf("userId"), <<98>>>>,  \* userId: "b"
    <<zhKeyOf("company"), << >>>>,  \* company: ""
    <<zhKeyOf("userName"), <<19978, 28023, 26377, 33394, 32593, 23567, 29579>>>>  \* userName: "上海有色网小王"
  >>)

\* hour 24; no company
Row4 ==
  RawRow(<<
    <<zhKeyOf("content"), <<38109, 26159, 20160, 20040>>>>,  \* content: "铝是什么"
    <<zhKeyOf("time"), <<50, 48, 50, 52, 45, 48, 49, 45, 48, 50, 32, 50, 52, 58, 48, 48, 58, 48, 48>>>>,  \* time: "2024-01-02 24:00:00"
    <<zhKeyOf("source"), <<119, 101, 98>>>>,  \* source: "web"
    <<zhKeyOf("userId"), <<99>>>>  \* userId: "c"
  >>)

\* no time of day; source __proto__; no userId
Row5 ==
  RawRow(<<
    <<zhKeyOf("content"), <<120, 121, 122>>>>,  \* content: "xyz"
    <<zhKeyOf("time"), <<50, 48, 50, 52, 45, 48, 49, 45, 48, 51>>>>,  \* time: "2024-01-03"
    <<zhKeyOf("source"), <<95, 95, 112, 114, 111, 116, 111, 95, 95>>>>,  \* source: "__proto__"
    <<zhKeyOf("userId"), << >>>>,  \* userId: ""
    <<zhKeyOf("company"), <<65, 99, 109, 101>>>>  \* company: "Acme"
  >>)

\* white-space content
Row6 ==
  RawRow(<<
    <<zhKeyOf("content"), <<32, 9, 32>>>>,  \* content: " \t "
    <<zhKeyOf("time"), <<50, 48, 50, 52, 45, 48, 49, 45, 48, 49, 32, 48, 56, 58, 48, 48, 58, 48, 48>>>>,  \* time: "2024-01-01 08:00:00"
    <<zhKeyOf("source"), <<119, 101, 98>>>>,  \* source: "web"
    <<zhKeyOf("userId"), <<97>>>>,  \* userId: "a"
    <<zhKeyOf("company"), <<65, 99, 109, 101>>>>  \* company: "Acme"
  >>)

\* no time cell
Row7 ==
  RawRow(<<
    <<zhKeyOf("content"), <<27979, 35797>>>>,  \* content: "测试"
    <<zhKeyOf("source"), <<97, 112, 112>>>>,  \* source: "app"
    <<zhKeyOf("userId"), <<99>>>>  \* userId: "c"
  >>)

\* date part constructor; numeric source; company toString
Row8 ==
  RawRow(<<
    <<zhKeyOf("content"), <<28072, 36300, 39044, 27979>>>>,  \* content: "涨跌预测"
    <<zhKeyOf("time"), <<99, 111, 110, 115, 116, 114, 117, 99, 116, 111, 114, 32, 55, 58, 48, 53>>>>,  \* time: "constructor 7:05"
    <<zhKeyOf("source"), <<49, 48>>>>,  \* source: "10"
    <<zhKeyOf("userId"), <<97>>>>,  \* userId: "a"
    <<zhKeyOf("company"), <<116, 111, 83, 116, 114, 105, 110, 103>>>>  \* company: "toString"
  >>)

\* hour not a number; numeric source
Row9 ==
  RawRow(<<
    <<zhKeyOf("content"), <<25968, 25454>>>>,  \* content: "数据"
    <<zhKeyOf("time"), <<50, 48, 50, 52, 45, 48, 49, 45, 48, 50, 32, 97, 98, 58, 48, 48>>>>,  \* time: "2024-01-02 ab:00"
    <<zhKeyOf("source"), <<50>>>>,  \* source: "2"
    <<zhKeyOf("userId"), <<99>>>>,  \* userId: "c"
    <<zhKeyOf("company"), <<65, 99, 109, 101>>>>  \* company: "Acme"
  >>)

\* terms in another letter case beside terms that match; two keywords in one
\* record: content "lme 价格走势 eva 铜", time "2024-01-04 08:00:00",
\* source "app", userId "d"
Row10 ==
  RawRow(<<
    <<zhKeyOf("content"), <<108, 109, 101, 32, 20215, 26684, 36208, 21183, 32, 101, 118, 97, 32, 38108>>>>,
    <<zhKeyOf("time"), <<50, 48, 50, 52, 45, 48, 49, 45, 48, 52, 32, 48, 56, 58, 48, 48, 58, 48, 48>>>>,
    <<zhKeyOf("source"), <<97, 112, 112>>>>,
    <<zhKeyOf("userId"), <<100>>>>
  >>)

\* geminiService.ts:60: ```html
FenceHtml == <<96, 96, 96, 104, 116, 109, 108>>

\* geminiService.ts:60: ```
Fence == <<96, 96, 96>>

\* a response without fences: <p>ok</p>
PlainText == <<60, 112, 62, 111, 107, 60, 47, 112, 62>>

\* a response wrapped in fences: ```html<p>ok</p>```
FencedText == <<96, 96, 96, 104, 116, 109, 108, 60, 112, 62, 111, 107, 60, 47, 112, 62, 96, 96, 96>>

\* a response that is empty once the fences are removed: ```html```
OnlyFences == <<96, 96, 96, 104, 116, 109, 108, 96, 96, 96>>

(***************************************************************************)
(* services/geminiService: what one call of analyzeUserIntent ends with.   *)
(* The outcome is decided by the environment (the API key, the network and *)
(* the model's answer), one of AiOutcomes per call.                        *)
(***************************************************************************)

\* String.prototype.replace(/pat/g, '') for a literal pattern
RECURSIVE removeAll(_, _)
removeAll(s, pat) ==
  IF Len(s) < Len(pat) THEN s
  ELSE IF SubSeq(s, 1, Len(pat)) = pat
  THEN removeAll(SubSeq(s, Len(pat) + 1, Len(s)), pat)
  ELSE <<s[1]>> \o removeAll(Tail(s), pat)

ResponseTexts == {PlainText, FencedText, OnlyFences}

\* noKey: getGeminiClient returns null;  text: generateContent answers with
\* response.text;  noText: it answers with no text;  apiError: it rejects;
\* throws: an exception escapes analyzeUserIntent (outside its try).
AiOutcomes ==
  {[kind |-> k, text |-> << >>] : k \in {"noKey", "noText", "apiError", "throws"}}
    \cup {[kind |-> "text", text |-> t] : t \in ResponseTexts}

\* The string analyzeUserIntent resolves with (outcomes other than throws)
analyzeUserIntent(o) ==
  IF o.kind = "noKey" THEN KeyMissingMarkup
  ELSE IF o.kind = "apiError" THEN ApiErrorMarkup
  ELSE removeAll(removeAll(o.text, FenceHtml), Fence)

(***************************************************************************)
(* App.tsx: the component state, the uploads in flight and the calls in    *)
(* flight.  Uploads are numbered in the order they are started.            *)
(***************************************************************************)

VARIABLES
  data,          \* useState<SmmLogEntry[]>
  summary,       \* useState<AnalysisSummary | null>: << >> is null, <<s>> is s
  dailyTrend, hourlyStats, sourceData, intentData, metalData,
  companyData, userTypeData, keywordData,
  aiAnalysis,    \* useState<string>
  loadingAi,     \* useState(false)
  files,         \* files[u]: the raw rows of the file of upload u
  parsing,       \* uploads whose parseCSV promise is pending
  aiCalls,       \* uploads whose analyzeUserIntent promise is pending
  alerts,        \* number of alert() calls so far
  resolved,      \* uploads whose parseCSV promise has resolved
  dataFrom,      \* the upload that last called setData (0: none)
  aiFrom         \* the upload whose call last set aiAnalysis to a result (0: none)

views ==
  <<summary, dailyTrend, hourlyStats, sourceData, intentData, metalData,
    companyData, userTypeData, keywordData>>

aiState == <<aiAnalysis, loadingAi, aiCalls, aiFrom>>

vars ==
  <<data, summary, dailyTrend, hourlyStats, sourceData, intentData, metalData,
    companyData, userTypeData, keywordData, aiAnalysis, loadingAi,
    files, parsing, aiCalls, alerts, resolved, dataFrom, aiFrom>>

MaxUploads == 2
MaxRows == 2

\* The files offered to the upload control
UploadFiles ==
  { <<Row1, Row2>>,          \* two valid records
    <<Row3, Row6, Row4>>,    \* one row dropped
    <<Row6, Row7>>,          \* every row dropped: an empty collection
    <<Row8>> }               \* a date part naming an inherited property

Catalogue == {Row1, Row2, Row3, Row4, Row5, Row6, Row7, Row8, Row9}

RECURSIVE rowsUpTo(_)
rowsUpTo(n) ==
  IF n = 0 THEN {<< >>}
  ELSE rowsUpTo(n - 1)
         \cup {Append(f, r) : f \in rowsUpTo(n - 1), r \in Catalogue}

\* Section 8, scenario 3: day 1 users {a, b}, day 2 users {b, c}
Scenario3 == <<Row1, Row2, Row3, Row4>>

\* Letter case of the terms of the multi-label tables
LetterCase == <<Row10>>

\* Four dates with users {a, b}, {b, c}, {""} and {d}: the ratios 1/2, 0 and
\* 0, whose mean is not a binary fraction
ThreePairs == <<Row1, Row2, Row3, Row4, Row5, Row10>>

\* Companies counted 1, "function ...1" and 2: the comparator of the sort by
\* value is 0 against the string and not 0 between the two numbers
MixedValues == <<Row1, Row8, Row2, Row2>>

InputFiles == rowsUpTo(MaxRows) \cup {Scenario3, LetterCase, ThreePairs, MixedValues}

InitState ==
  /\ data = << >>
  /\ summary = << >>
  /\ dailyTrend = << >>
  /\ hourlyStats = << >>
  /\ sourceData = << >>
  /\ intentData = << >>
  /\ metalData = << >>
  /\ companyData = << >>
  /\ userTypeData = << >>
  /\ keywordData = << >>
  /\ aiAnalysis = << >>
  /\ loadingAi = FALSE
  /\ aiCalls = {}
  /\ alerts = 0
  /\ resolved = {}
  /\ dataFrom = 0
  /\ aiFrom = 0

Init == InitState /\ files = << >> /\ parsing = {}

\* handleFileUpload up to its await: the file is handed to parseCSV
Upload(file) ==
  /\ Len(files) < MaxUploads
  /\ files' = Append(files, file)
  /\ parsing' = parsing \cup {Len(files) + 1}
  /\ UNCHANGED <<data, views, aiState, alerts, resolved, dataFrom>>

\* triggerAiAnalysis up to its await
triggerAiAnalysis(u, dataset) ==
  IF Len(dataset) = 0
  THEN UNCHANGED aiState
  ELSE /\ loadingAi' = TRUE
       /\ aiAnalysis' = << >>
       /\ aiFrom' = 0
       /\ aiCalls' = aiCalls \cup {u}

\* What handleFileUpload computes from the rows of one file once parseCSV
\* has resolved: the collection, whether getSummaryStats (the first
\* aggregation called) throws, and the argument of each of the nine setters.
\* summaries holds the summaries the sort of the sources may give, and
\* companyData the array for each order the sort of the companies may leave.
ingest(rows) ==
  LET parsedData == parseCSV(rows)
  IN  [parsedData   |-> parsedData,
       throws       |-> getSummaryStatsThrows(parsedData),
       summaries    |-> getSummaryStats(parsedData),
       dailyTrend   |-> getDailyTrend(parsedData),
       hourlyStats  |-> getHourlyStats(parsedData),
       sourceData   |-> getSourceDistribution(parsedData),
       intentData   |-> classifyIntents(parsedData),
       metalData    |-> getMetalDistribution(parsedData),
       companyData  |-> getTopCompanies(parsedData),
       userTypeData |-> getUserTypeDistribution(parsedData),
       keywordData  |-> getTopKeywords(parsedData)]

\* The nine setters of handleFileUpload after setData
setViews(r) ==
  /\ summary' \in {<<s>> : s \in r.summaries}
  /\ dailyTrend' = r.dailyTrend
  /\ hourlyStats' = r.hourlyStats
  /\ sourceData' = r.sourceData
  /\ intentData' = r.intentData
  /\ metalData' = r.metalData
  /\ \E order \in DOMAIN r.companyData : companyData' = r.companyData[order]
  /\ userTypeData' = r.userTypeData
  /\ keywordData' = r.keywordData

\* handleFileUpload after parseCSV resolves: setData, then the views, then
\* triggerAiAnalysis.  When getSummaryStats throws, setData has run, the
\* catch block alerts, and nothing else runs.
ParseResolve(u) ==
  LET r == ingest(files[u])
  IN  /\ u \in parsing
      /\ parsing' = parsing \ {u}
      /\ resolved' = resolved \cup {u}
      /\ data' = r.parsedData
      /\ dataFrom' = u
      /\ IF r.throws
         THEN /\ alerts' = alerts + 1
              /\ UNCHANGED <<views, aiState>>
         ELSE /\ setViews(r)
              /\ triggerAiAnalysis(u, r.parsedData)
              /\ UNCHANGED alerts
      /\ UNCHANGED files

\* handleFileUpload after parseCSV rejects (Papa's error callback)
ParseReject(u) ==
  /\ u \in parsing
  /\ parsing' = parsing \ {u}
  /\ alerts' = alerts + 1
  /\ UNCHANGED <<data, views, aiState, files, resolved, dataFrom>>

\* AiSettle whose catch block also drops the summary
AiSettleClearsSummary(u, o) ==
  /\ u \in aiCalls
  /\ aiCalls' = aiCalls \ {u}
  /\ aiAnalysis' = IF o.kind = "throws" THEN FailedMarkup ELSE analyzeUserIntent(o)
  /\ summary' = IF o.kind = "throws" THEN << >> ELSE summary
  /\ aiFrom' = u
  /\ loadingAi' = FALSE
  /\ UNCHANGED <<data, dailyTrend, hourlyStats, sourceData, intentData, metalData,
                 companyData, userTypeData, keywordData,
                 files, parsing, alerts, resolved, dataFrom>>

\* AiSettle without the finally block: loadingAi is reset on success only
AiSettleNoFinally(u, o) ==
  /\ u \in aiCalls
  /\ aiCalls' = aiCalls \ {u}
  /\ aiAnalysis' = IF o.kind = "throws" THEN FailedMarkup ELSE analyzeUserIntent(o)
  /\ aiFrom' = u
  /\ loadingAi' = IF o.kind = "throws" THEN loadingAi ELSE FALSE
  /\ UNCHANGED <<data, views, files, parsing, alerts, resolved, dataFrom>>

\* triggerAiAnalysis after its await: try / catch / finally
AiSettle(u, o) ==
  /\ u \in aiCalls
  /\ aiCalls' = aiCalls \ {u}
  /\ aiAnalysis' = IF o.kind = "throws" THEN FailedMarkup ELSE analyzeUserIntent(o)
  /\ aiFrom' = u
  /\ loadingAi' = FALSE
  /\ UNCHANGED <<data, views, files, parsing, alerts, resolved, dataFrom>>

Next ==
  \/ \E file \in UploadFiles : Upload(file)
  \/ \E u \in parsing : ParseResolve(u)
  \/ \E u \in parsing : ParseReject(u)
  \/ \E u \in aiCalls, o \in AiOutcomes : AiSettle(u, o)

Spec == Init /\ [][Next]_vars

\* The promise of every analyzeUserIntent call in flight eventually settles:
\* generateContent answers or rejects, and the continuation of
\* triggerAiAnalysis then runs.
LiveSpec ==
  /\ Spec
  /\ \A u \in 1..MaxUploads : WF_vars(\E o \in AiOutcomes : AiSettle(u, o))

\* One file, any input of InputFiles: the aggregations on every collection
InitFn == InitState /\ files \in {<<f>> : f \in InputFiles} /\ parsing = {1}

NextFn ==
  \/ \E u \in parsing : ParseResolve(u)
  \/ \E u \in parsing : ParseReject(u)
  \/ \E u \in aiCalls, o \in AiOutcomes : AiSettle(u, o)

SpecFn == InitFn /\ [][NextFn]_vars

(***************************************************************************)
(* Properties of ingestion and of the summarization call.                  *)
(***************************************************************************)

RECURSIVE Sum(_)
Sum(ns) == IF Len(ns) = 0 THEN 0 ELSE ns[1] + Sum(Tail(ns))

SumValues(nvs) == Sum(array([i \in 1..Len(nvs) |-> nvs[i].value]))

\* A cell that is empty or consists of white space only
isBlank(s) == \A i \in 1..Len(s) : s[i] \in WhiteSpaceUnits

\* The cell of a raw row under the header of field f, empty when missing
rawCell(row, f) == IF zhKeyOf(f) \in DOMAIN row THEN row[zhKeyOf(f)] ELSE << >>

rowHasContentAndTime(row) ==
  ~isBlank(rawCell(row, "content")) /\ ~isBlank(rawCell(row, "time"))

\* The stored collection and the nine views are the ones handleFileUpload
\* computes from the rows of one file
ViewsFrom(rows) ==
  LET r == ingest(rows)
  IN  /\ data = r.parsedData
      /\ summary \in {<<s>> : s \in r.summaries}
      /\ dailyTrend = r.dailyTrend
      /\ hourlyStats = r.hourlyStats
      /\ sourceData = r.sourceData
      /\ intentData = r.intentData
      /\ metalData = r.metalData
      /\ \E order \in DOMAIN r.companyData : companyData = r.companyData[order]
      /\ userTypeData = r.userTypeData
      /\ keywordData = r.keywordData

\* The same of the state a step leads to
ViewsBecome(rows) ==
  LET r == ingest(rows)
  IN  /\ data' = r.parsedData
      /\ summary' \in {<<s>> : s \in r.summaries}
      /\ dailyTrend' = r.dailyTrend
      /\ hourlyStats' = r.hourlyStats
      /\ sourceData' = r.sourceData
      /\ intentData' = r.intentData
      /\ metalData' = r.metalData
      /\ \E order \in DOMAIN r.companyData : companyData' = r.companyData[order]
      /\ userTypeData' = r.userTypeData
      /\ keywordData' = r.keywordData

\* C1: the collection parseCSV resolves with holds no record whose content
\* or time is empty after trimming; it is made of exactly the rows whose
\* content and time cells are both non-blank, in their original order, so a
\* dropped row is counted in no view (totalQueries and the intent counts,
\* which cover every record, count the kept rows only).
C1_NoBlankContentOrTime ==
  dataFrom # 0 =>
    LET kept == SelectSeq(files[dataFrom], rowHasContentAndTime)
    IN  /\ \A i \in 1..Len(data) :
             ~isBlank(data[i].content) /\ ~isBlank(data[i].time)
        /\ Len(data) = Len(kept)
        /\ \A i \in 1..Len(data) :
             /\ data[i].content = trim(rawCell(kept[i], "content"))
             /\ data[i].time = trim(rawCell(kept[i], "time"))
             /\ data[i].userId = trim(rawCell(kept[i], "userId"))
        /\ summary # << >> =>
             /\ summary[1].totalQueries = Len(kept)
             /\ SumValues(intentData) = Len(kept)

\* C1 witness: a file with a dropped row and a kept row has been ingested
C1_Witness ==
  /\ dataFrom # 0
  /\ summary # << >>
  /\ Len(data) >= 1
  /\ Len(data) < Len(files[dataFrom])

\* C2: every handleFileUpload attempt that ends either leaves the stored
\* collection and all nine views computed from the newly parsed collection,
\* or leaves every one of them unchanged and reports exactly one error.
C2_AtomicIngestion ==
  [][\A u \in parsing \ parsing' :
       \/ ViewsBecome(files[u])
       \/ (UNCHANGED <<data, views>> /\ alerts' = alerts + 1)]_vars

\* C3: uploads are serialized, so once nothing is in flight the displayed
\* collection is that of the upload started last among those that parsed.
C3_LastUploadWins ==
  (parsing = {} /\ aiCalls = {}) => \A u \in resolved : u <= dataFrom

\* C4: when the summarization call of an upload starts, the collection and
\* the nine views are already those of that upload; while a call is in
\* flight the views are set; and the step that ends a call (success or
\* failure) leaves the collection, the nine views and the error count as
\* they were.
C4_AiIsolation ==
  [][/\ \A u \in aiCalls' \ aiCalls : ViewsBecome(files[u])
     /\ aiCalls' # {} => summary' # << >>
     /\ \A u \in aiCalls \ aiCalls' : UNCHANGED <<data, views, alerts>>]_vars

\* C4 witness: a summarization has failed with the views of its upload shown
C4_Witness ==
  /\ aiFrom # 0
  /\ aiAnalysis = FailedMarkup
  /\ ~loadingAi
  /\ Len(data) > 0
  /\ ViewsFrom(files[aiFrom])

\* What aiAnalysis may hold once a call has ended
AiResults ==
  {FailedMarkup} \cup {analyzeUserIntent(o) : o \in {x \in AiOutcomes : x.kind # "throws"}}

\* C5: every summarization started eventually ends with aiAnalysis set to
\* the result of that call (the returned markup, the returned failure markup
\* or the failure marker of the catch block) and loadingAi false; a call
\* that has ended is never started again.
C5_SummarizationEnds ==
  /\ \A c \in 1..MaxUploads :
       (c \in aiCalls) ~>
         (c \notin aiCalls /\ aiFrom = c /\ ~loadingAi /\ aiAnalysis \in AiResults)
  /\ [][\A c \in resolved : c \notin aiCalls => c \notin aiCalls']_vars

\* C5 witness: analyzeUserIntent has returned its failure markup
C5_Witness ==
  /\ aiFrom # 0
  /\ aiCalls = {}
  /\ aiAnalysis = ApiErrorMarkup
  /\ ~loadingAi

(***************************************************************************)
(* Properties of the aggregations, on the collection of the ingested file. *)
(***************************************************************************)

\* C6: the values of getSourceDistribution are numbers and sum to the number
\* of records, which is getSummaryStats' totalQueries.
C6_SourceSumIsTotal ==
  dataFrom # 0 =>
    LET sources == getSourceDistribution(data)
    IN  /\ \A i \in 1..Len(sources) : isCountKey(sources[i].name)
        /\ SumValues(sources) = Len(data)
        /\ ~getSummaryStatsThrows(data) =>
             \A s \in getSummaryStats(data) : s.totalQueries = Len(data)

\* The patterns, by position in the table, that match a content
matchingPatterns(content) ==
  {i \in 1..Len(IntentPatterns) : intentMatches(i, content)}

\* The records whose first matching pattern is the i-th; for the last label
\* (the catch-all) the records no pattern matches
firstMatchIs(d, i) ==
  {k \in 1..Len(d) :
     LET m == matchingPatterns(d[k].content)
     IN  IF i = Len(IntentLabels) THEN m = {}
         ELSE i \in m /\ \A j \in m : i <= j}

\* C7: classifyIntents returns the six labels in declaration order, each
\* with the number of records whose first matching pattern is that label's
\* (the catch-all: no pattern matches), zero counts included, and the values
\* sum to the number of records; the intent view shows that result.
C7_FirstMatchWins ==
  dataFrom # 0 =>
    LET r == classifyIntents(data)
    IN  /\ Len(r) = Len(IntentLabels)
        /\ Len(IntentLabels) = Len(IntentPatterns) + 1
        /\ \A i \in 1..Len(r) :
             /\ r[i].name = IntentLabels[i]
             /\ r[i].value = Cardinality(firstMatchIs(data, i))
        /\ SumValues(r) = Len(data)
        /\ summary # << >> => intentData = r

\* C7 witness: a record matching two patterns is counted under the first
\* of them only
C7_Witness ==
  /\ summary # << >>
  /\ \E k \in 1..Len(data) :
       /\ Cardinality(matchingPatterns(data[k].content)) >= 2
       /\ \E i \in matchingPatterns(data[k].content) :
            /\ intentData[i].value = 1
            /\ \A j \in matchingPatterns(data[k].content) \ {i} :
                 i < j /\ intentData[j].value = 0

\* The hour of a record whose time has a second space-separated part that
\* begins with an integer in 0..23, and -1 for any other record
parsedHour(entry) ==
  LET parts == split(entry.time, SPACE)
  IN  IF Len(parts) < 2 THEN -1
      ELSE LET h == parseInt(split(parts[2], COLON)[1])
               zero == [integer(0) EXCEPT !.negative = TRUE]
           IN  IF h = zero THEN 0
               ELSE IF \E n \in 0..23 : h = integer(n)
               THEN CHOOSE n \in 0..23 : h = integer(n)
               ELSE -1

\* C8: getHourlyStats returns 24 entries labelled "0:00" .. "23:00" in hour
\* order, entry h counting the records whose hour parses as h; the counts
\* sum to at most the number of records, with equality exactly when every
\* record's hour parses; a record that is skipped here is still counted by
\* totalQueries.
C8_HourlyStats ==
  dataFrom # 0 =>
    LET r     == getHourlyStats(data)
        total == Sum(array([i \in 1..Len(r) |-> r[i].count]))
    IN  /\ Len(r) = 24
        /\ \A h \in 0..23 :
             /\ r[h + 1].hour =
                  (IF h < 10 THEN <<48 + h>> ELSE <<48 + (h \div 10), 48 + (h % 10)>>)
                    \o <<58, 48, 48>>
             /\ r[h + 1].count =
                  Cardinality({k \in 1..Len(data) : parsedHour(data[k]) = h})
        /\ total <= Len(data)
        /\ (total = Len(data)) <=> \A k \in 1..Len(data) : parsedHour(data[k]) # -1
        /\ summary # << >> =>
             hourlyStats = r /\ summary[1].totalQueries = Len(data)

\* C8 witness: one record is counted under its hour and another, whose hour
\* does not parse, is skipped
C8_Witness ==
  /\ summary # << >>
  /\ \E k \in 1..Len(data) : parsedHour(data[k]) = -1
  /\ \E k \in 1..Len(data) :
       parsedHour(data[k]) # -1 /\ hourlyStats[parsedHour(data[k]) + 1].count = 1

\* The three segments: internal, else external when a company is named, else unknown
internalRecords(d) == {k \in 1..Len(d) : isInternalUser(d[k])}

externalRecords(d) ==
  {k \in 1..Len(d) : ~isInternalUser(d[k]) /\ ~isBlank(d[k].company)}

unknownRecords(d) ==
  {k \in 1..Len(d) : ~isInternalUser(d[k]) /\ isBlank(d[k].company)}

\* C9: getUserTypeDistribution returns the sizes of the internal, external
\* and unknown segments, in that order and without the empty ones; the
\* segments are disjoint and cover the records, so the values sum to the
\* number of records; the user-type view shows that result.
C9_UserTypePartition ==
  dataFrom # 0 =>
    LET r        == getUserTypeDistribution(data)
        segments == <<[name  |-> LabelInternal,
                       value |-> Cardinality(internalRecords(data))],
                      [name  |-> LabelExternal,
                       value |-> Cardinality(externalRecords(data))],
                      [name  |-> LabelUnknownUser,
                       value |-> Cardinality(unknownRecords(data))]>>
    IN  /\ r = SelectSeq(segments, LAMBDA seg : seg.value # 0)
        /\ SumValues(r) = Len(data)
        /\ summary # << >> => userTypeData = r

\* C9 witness: an internal record that names a company and a record with no
\* company are shown as internal and unknown, with no external segment
C9_Witness ==
  /\ summary # << >>
  /\ \E k \in internalRecords(data) : ~isBlank(data[k].company)
  /\ unknownRecords(data) # {}
  /\ Len(userTypeData) = 2
  /\ userTypeData[1] = [name |-> LabelInternal, value |-> 1]
  /\ userTypeData[2] = [name |-> LabelUnknownUser, value |-> 1]

\* The distinct dates of a collection in ascending order
ascendingDates(d) ==
  LET S == {datePart(d[k]) : k \in 1..Len(d)}
  IN  array([i \in 1..Cardinality(S) |->
               CHOOSE x \in S : Cardinality({y \in S : codeUnitLess(y, x)}) = i - 1])

\* The userId values (empty or not) seen on a date
usersOn(d, date) == {d[k].userId : k \in {j \in 1..Len(d) : datePart(d[j]) = date}}

\* Sum over the first n adjacent pairs of |today /\ tomorrow| / |today|
RECURSIVE retainedRatioSum(_, _, _)
retainedRatioSum(d, dates, n) ==
  IF n = 0 THEN integer(0)
  ELSE LET today    == usersOn(d, dates[n])
           tomorrow == usersOn(d, dates[n + 1])
       IN  sum(retainedRatioSum(d, dates, n - 1),
               quotient(integer(Cardinality(today \cap tomorrow)), Cardinality(today)))

\* 100 times the mean of the ratio over the adjacent pairs, 0 without a
\* pair, in the arithmetic of JavaScript numbers
meanRetention(d) ==
  LET dates == ascendingDates(d)
      pairs == Len(dates) - 1
  IN  IF pairs < 1 THEN integer(0)
      ELSE product(quotient(retainedRatioSum(d, dates, pairs), pairs), 100)

\* C10: for every collection getSummaryStats yields a retentionRate, equal
\* to 100 times the mean over the adjacent pairs of dates of the share of
\* the earlier day's users seen again on the later day; 0 with fewer than
\* two dates; 50 for day 1 users {a, b} and day 2 users {b, c}.
C10_RetentionRate ==
  dataFrom # 0 =>
    /\ ~calculateRetentionThrows(data)
    /\ calculateRetention(data) = meanRetention(data)
    /\ Len(ascendingDates(data)) < 2 => calculateRetention(data) = integer(0)
    /\ data = parseCSV(Scenario3) => calculateRetention(data) = integer(50)
    /\ summary # << >> => summary[1].retentionRate = calculateRetention(data)

\* C11: getDailyTrend returns, for every collection, one entry per distinct
\* date portion, in strictly ascending order of the date strings, with
\* queries the number of records of that date and dau the number of
\* distinct non-empty userId values among them; the daily view shows it.
C11_DailyTrend ==
  dataFrom # 0 =>
    /\ ~getDailyTrendThrows(data)
    /\ LET r     == getDailyTrend(data)
           dates == ascendingDates(data)
       IN  /\ Len(r) = Len(dates)
           /\ \A i \in 1..Len(r) :
                /\ r[i].date = dates[i]
                /\ r[i].queries =
                     Cardinality({k \in 1..Len(data) : datePart(data[k]) = dates[i]})
                /\ r[i].dau = Cardinality(usersOn(data, dates[i]) \ {<< >>})
           /\ \A i \in 1..(Len(r) - 1) : codeUnitLess(r[i].date, r[i + 1].date)
           /\ summary # << >> => dailyTrend = r

\* The label a record is counted under by the rule of the top-companies
\* table: the fixed internal label for an internal record, else the trimmed
\* company (<< >>: the record is excluded)
companyLabel(entry) ==
  IF isInternalUser(entry) THEN INTERNAL_LABEL ELSE trim(entry.company)

\* Position of the first occurrence of a label in a sequence of labels
firstSeen(labels, label) ==
  CHOOSE k \in 1..Len(labels) :
    labels[k] = label /\ \A j \in 1..(k - 1) : labels[j] # label

\* C12: getTopCompanies counts internal records under the fixed internal
\* label, every other record under its trimmed company, and no record with
\* an empty company; every value is the number of records of its label; the
\* result has the (at most 10) labels in non-increasing count order, equal
\* counts in the order the labels were first seen.
C12_TopCompanies ==
  dataFrom # 0 =>
    LET seen   == array([k \in 1..Len(data) |-> companyLabel(data[k])])
        labels == {seen[k] : k \in 1..Len(seen)} \ {<< >>}
        n      == IF Cardinality(labels) < 10 THEN Cardinality(labels) ELSE 10
    IN  /\ \A order \in DOMAIN getTopCompanies(data) :
             LET r == getTopCompanies(data)[order] IN
             /\ Len(r) = n
             /\ \A i \in 1..Len(r) :
                  /\ r[i].name \in labels
                  /\ isCountKey(r[i].name)
                  /\ r[i].value =
                       Cardinality({k \in 1..Len(data) : companyLabel(data[k]) = r[i].name})
             /\ \A i, j \in 1..Len(r) :
                  i < j =>
                    /\ r[i].name # r[j].name
                    /\ r[i].value >= r[j].value
                    /\ r[i].value = r[j].value =>
                         firstSeen(seen, r[i].name) < firstSeen(seen, r[j].name)
        /\ summary # << >> =>
             \E order \in DOMAIN getTopCompanies(data) :
               companyData = getTopCompanies(data)[order]

\* The label a record is counted under in the source distribution
sourceLabel(entry) ==
  IF entry.source = << >> THEN LabelUnknownSource ELSE entry.source

\* C13: getSourceDistribution returns one entry per distinct source label
\* (the empty source as "Unknown"), in the order in which the labels first
\* occur in the collection; the source view shows it.
C13_SourceFirstSeenOrder ==
  dataFrom # 0 =>
    LET r      == getSourceDistribution(data)
        seen   == array([k \in 1..Len(data) |-> sourceLabel(data[k])])
        labels == {seen[k] : k \in 1..Len(seen)}
    IN  /\ Len(r) = Cardinality(labels)
        /\ \A i \in 1..Len(r) : r[i].name \in labels
        /\ \A i, j \in 1..Len(r) :
             i < j => /\ r[i].name # r[j].name
                      /\ firstSeen(seen, r[i].name) < firstSeen(seen, r[j].name)
        /\ summary # << >> => sourceData = r

\* The source label with the maximum count, the first seen among the maxima
firstSeenTopSource(d) ==
  LET seen     == array([k \in 1..Len(d) |-> sourceLabel(d[k])])
      labels   == {seen[k] : k \in 1..Len(seen)}
      count(l) == Cardinality({k \in 1..Len(seen) : seen[k] = l})
      maxima   == {l \in labels : \A m \in labels : count(l) >= count(m)}
  IN  CHOOSE l \in maxima :
        \A m \in maxima : firstSeen(seen, l) <= firstSeen(seen, m)

\* The date with the maximum number of records, the first of the daily trend
\* (the least date string) among the maxima
firstBusiestDay(d) ==
  LET dates    == ascendingDates(d)
      count(i) == Cardinality({k \in 1..Len(d) : datePart(d[k]) = dates[i]})
      maxima   == {i \in 1..Len(dates) : \A j \in 1..Len(dates) : count(i) >= count(j)}
  IN  dates[CHOOSE i \in maxima : \A j \in maxima : i <= j]

\* C14: for every collection getSummaryStats yields a summary whose
\* topSource is the source label with the maximum count, the first seen in
\* the collection among the maxima, and "N/A" exactly when the collection is
\* empty; busiestDay is the date with the most records, the first of the
\* daily trend among the maxima, and "N/A" exactly when the collection is
\* empty.
C14_TopSourceBusiestDay ==
  dataFrom # 0 =>
    /\ ~getSummaryStatsThrows(data)
    /\ \A s \in getSummaryStats(data) :
         /\ s.topSource = (IF Len(data) = 0 THEN LabelNA ELSE firstSeenTopSource(data))
         /\ s.busiestDay = (IF Len(data) = 0 THEN LabelNA ELSE firstBusiestDay(data))
    /\ summary # << >> =>
         /\ summary[1] \in getSummaryStats(data)
         /\ (summary[1].topSource = LabelNA) <=> (Len(data) = 0)
         /\ (summary[1].busiestDay = LabelNA) <=> (Len(data) = 0)

\* names and values are a multi-label result over a table of terms: the
\* terms contained (as they are written) in the content of at least one
\* record, each with the number of records that contain it, in
\* non-increasing order of that number, equal numbers in table order
isMultiLabelResult(names, values, table, d) ==
  LET count(t)  == Cardinality({k \in 1..Len(d) : includes(d[k].content, t)})
      indexOf(t) == CHOOSE i \in 1..Len(table) : table[i] = t
      present   == {i \in 1..Len(table) : count(table[i]) >= 1}
  IN  /\ Len(names) = Cardinality(present)
      /\ \A i \in 1..Len(names) :
           /\ names[i] \in {table[j] : j \in present}
           /\ values[i] = count(names[i])
      /\ \A i, j \in 1..Len(names) :
           i < j => /\ values[i] >= values[j]
                    /\ names[i] # names[j]
                    /\ values[i] = values[j] => indexOf(names[i]) < indexOf(names[j])

\* C15: getMetalDistribution and getTopKeywords return, for their table, the
\* terms that at least one record's content contains as a case-sensitive
\* substring, each with the number of records containing it (a record counts
\* for every term it contains), in non-increasing count order with equal
\* counts in table order; the metal and keyword views show them.
C15_MultiLabelCounters ==
  dataFrom # 0 =>
    LET m == getMetalDistribution(data)
        w == getTopKeywords(data)
    IN  /\ isMultiLabelResult(array([i \in 1..Len(m) |-> m[i].name]),
                              array([i \in 1..Len(m) |-> m[i].value]), Metals, data)
        /\ isMultiLabelResult(array([i \in 1..Len(w) |-> w[i].keyword]),
                              array([i \in 1..Len(w) |-> w[i].count]), Keywords, data)
        /\ summary # << >> => metalData = m /\ keywordData = w

\* C15 witness: a record whose content holds two keywords and one metal as
\* written, and a keyword and a metal in another letter case, is counted
\* under the former only, the two keywords in table order
C15_Witness ==
  /\ summary # << >>
  /\ Len(data) = 1
  /\ Cardinality({i \in 1..Len(Keywords) : termCountIgnoreCase(data, Keywords[i]) = 1}) = 3
  /\ Cardinality({i \in 1..Len(Metals) : termCountIgnoreCase(data, Metals[i]) = 1}) = 2
  /\ Len(keywordData) = 2
  /\ keywordData[1] = [keyword |-> Keywords[1], count |-> 1]
  /\ keywordData[2] = [keyword |-> Keywords[3], count |-> 1]
  /\ Len(metalData) = 1
  /\ metalData[1] = [name |-> Metals[1], value |-> 1]

\* C16: loadingAi is true whenever a summarization call started by
\* triggerAiAnalysis has not yet completed.
C16_LoadingWhileInFlight ==
  aiCalls # {} => loadingAi

\* C17: whenever no summarization call is in flight and aiAnalysis is
\* non-empty, aiAnalysis is the result of a call made for a collection equal
\* to the one stored in data.
C17_AnalysisOfCurrentData ==
  (aiCalls = {} /\ aiAnalysis # << >>) =>
    /\ aiFrom # 0
    /\ data = parseCSV(files[aiFrom])

====
